---- MODULE Spec2Model ----
(***************************************************************************)
(* A model of the a2a-carbon-chat-adapter: the A2A -> Carbon translator    *)
(* (lib/translator), the A2AChat component's send / cancel handlers and    *)
(* the useA2AAgent hook's sendMessage / cancelStream.                      *)
(*                                                                         *)
(* Strings are modelled as sequences of tokens (words joined by single     *)
(* spaces); a falsy string (null, undefined or '') is the empty sequence,  *)
(* which is how every use in the translator treats them.  Scalar JS values *)
(* are atoms; Undef is undefined, and Truthy gives JS truthiness.          *)
(***************************************************************************)
EXTENDS Integers, Sequences, FiniteSets, TLC

\* ------------------------------------------------------------------ bounds
\* words of title and content together in one trajectory fragment
MaxLen == 3
\* artifacts plus parts of one task
MaxTaskSize == 4
\* chunks fed to one streaming translation
MaxChunks == 2
\* sends (response streams) started in one chat session
MaxSends == 2

\* ------------------------------------------------------- JS value helpers
Undef == "undefined"

Truthy(v) == v \notin {"undefined", "null", "''", "0", "false"}

\* a || b on scalar atoms
Or(a, b) == IF Truthy(a) THEN a ELSE b

\* an optional value: <<>> is null / no message, <<v>> is v
Some(v) == <<v>>

RECURSIVE Concat(_)
Concat(ss) == IF ss = <<>> THEN <<>> ELSE Head(ss) \o Concat(Tail(ss))

\* ------------------------------------------------------------ string model
\* The words a title or a content text is made of.
TitleWords == {"Calling", "Tool", "Call:", "search_web", "Result", "Failed", "failed", "Thinking", "Status"}

TextWords == {"hello", "Calling", "**Arguments:**", "**Result:**", "Error"}

\* String.prototype.toLowerCase on one word
Lower(w) ==
    CASE w = "Calling" -> "calling"
      [] w = "Tool" -> "tool"
      [] w = "Call:" -> "call:"
      [] w = "Result" -> "result"
      [] w = "Thinking" -> "thinking"
      [] w = "Status" -> "status"
      [] w = "Failed" -> "failed"
      [] w = "Error" -> "error"
      [] w = "**Arguments:**" -> "**arguments:**"
      [] w = "**Result:**" -> "**result:**"
      [] OTHER -> w

\* the needles (among those the translator searches for) that occur inside
\* the word w as it is spelled
WordHas(w) ==
    CASE w = "calling" -> {"calling"}
      [] w = "call:" -> {"call"}
      [] w = "tool" -> {"tool"}
      [] w = "result" -> {"result"}
      [] w = "**result:**" -> {"result"}
      [] w = "thinking" -> {"thinking"}
      [] w = "status" -> {"status"}
      [] w = "failed" -> {"failed"}
      [] w = "error" -> {"error"}
      [] w = "**Arguments:**" -> {"**Arguments:**"}
      [] w = "**Result:**" -> {"**Result:**"}
      [] OTHER -> {}

\* s.includes(needle) for a one-word needle
Includes(s, needle) == \E i \in 1..Len(s) : needle \in WordHas(s[i])

\* s.toLowerCase()
ToLower(s) == [i \in 1..Len(s) |-> Lower(s[i])]

\* s.includes('tool call'): the needle spans two words joined by one space
IncludesToolCall(s) ==
    \E i \in 1..(Len(s) - 1) : s[i] = "tool" /\ "call" \in WordHas(s[i + 1])

\* ------------------------------------------------------ embedded JSON docs
\* The texts found inside a fenced code block, by name, as JSON.parse sees
\* them.  valid = FALSE: JSON.parse throws.  td is the legacy nested
\* tool_data object (present or not).
NoToolData == [present |-> FALSE, tool_name |-> Undef, args |-> Undef, result_preview |-> Undef, status |-> Undef]

JsonDoc(j) ==
    CASE j = "J_CALL" ->
           [valid |-> TRUE, type |-> "tool_call", content_type |-> Undef, tool_name |-> "search_web",
            args |-> "args1", result |-> Undef, result_preview |-> Undef, status |-> Undef, td |-> NoToolData]
      [] j = "J_CALL_LEGACY" ->
           [valid |-> TRUE, type |-> Undef, content_type |-> "tool_call", tool_name |-> Undef,
            args |-> Undef, result |-> Undef, result_preview |-> Undef, status |-> Undef,
            td |-> [present |-> TRUE, tool_name |-> "fetch_url", args |-> "args2", result_preview |-> Undef, status |-> Undef]]
      [] j = "J_RESULT" ->
           [valid |-> TRUE, type |-> "tool_result", content_type |-> Undef, tool_name |-> "search_web",
            args |-> Undef, result |-> "res1", result_preview |-> Undef, status |-> Undef, td |-> NoToolData]
      [] j = "J_RESULT_LEGACY_ERR" ->
           [valid |-> TRUE, type |-> Undef, content_type |-> "tool_result", tool_name |-> Undef,
            args |-> Undef, result |-> Undef, result_preview |-> Undef, status |-> Undef,
            td |-> [present |-> TRUE, tool_name |-> "fetch_url", args |-> Undef, result_preview |-> "prev2", status |-> "error"]]
      [] j = "J_OTHER" ->
           [valid |-> TRUE, type |-> "note", content_type |-> Undef, tool_name |-> Undef,
            args |-> Undef, result |-> Undef, result_preview |-> Undef, status |-> Undef, td |-> NoToolData]
      [] OTHER ->
           [valid |-> FALSE, type |-> Undef, content_type |-> Undef, tool_name |-> Undef,
            args |-> Undef, result |-> Undef, result_preview |-> Undef, status |-> Undef, td |-> NoToolData]

JsonTexts == {"J_CALL", "J_CALL_LEGACY", "J_RESULT", "J_RESULT_LEGACY_ERR", "J_OTHER", "J_BAD"}

\* the words of a JSON text that the translator's substring searches can hit
JsonWords(j) ==
    CASE j = "J_RESULT_LEGACY_ERR" -> <<"error">>
      [] OTHER -> <<>>

\* A content string is a sequence of pieces: a word of plain text, or a
\* fenced code block ```...``` holding the text named by tok.
Word(w) == [fence |-> FALSE, tok |-> w]

Fence(j) == [fence |-> TRUE, tok |-> j]

Pieces == {Word(w) : w \in TextWords} \cup {Fence(j) : j \in JsonTexts}

\* the words of the whole content string, fenced text included
ContentWords(content) ==
    Concat([i \in 1..Len(content) |->
              IF content[i].fence THEN JsonWords(content[i].tok) ELSE <<content[i].tok>>])

\* content.replace(/```[\s\S]*?```/g, '').trim()
StripFences(content) ==
    Concat([i \in 1..Len(content) |->
              IF content[i].fence THEN <<>> ELSE <<content[i].tok>>])

\* content.match(/```(?:json)?\s*([\s\S]*?)```/): the first fenced block
FirstFence(content) ==
    LET idx == {i \in 1..Len(content) : content[i].fence}
    IN  IF idx = {} THEN <<>>
        ELSE Some(content[CHOOSE i \in idx : \A k \in idx : i <= k].tok)

\* ------------------------------------------------- extension constants
CONTENT_TYPES == [THINKING |-> "thinking", RESPONSE |-> "response", TOOL_CALL |-> "tool_call",
                  TOOL_RESULT |-> "tool_result", STATUS |-> "status"]

TRAJECTORY_URI == "https://a2a-extensions.agentstack.beeai.dev/ui/trajectory/v1"

FORM_REQUEST_URI == "https://a2a-extensions.agentstack.beeai.dev/ui/form-request/v1"

CITATION_URI == "https://a2a-extensions.agentstack.beeai.dev/ui/citation/v1"

ChainOfThoughtStepStatus == [PROCESSING |-> "processing", SUCCESS |-> "success", ERROR |-> "error"]

\* a record with no field: optional fields are merged in with @@
NoFields == [k \in {} |-> k]

Opt(present, rec) == IF present THEN rec ELSE NoFields

\* ------------------------------------------------------ content classifier
\* A metadata map is optional (<<>> is undefined, <<m>> a map); a map is a
\* record keyed by extension URI or plain key.  The value under the
\* trajectory URI is tagged with its JS shape: only an "object" carries the
\* TrajectoryData fields, an "array" (items) and a "wrapper" (an object whose
\* one field holds the array items) are objects without them, anything else
\* is not an object.
NoTrajectory == [title |-> <<>>, content |-> <<>>, group_id |-> Undef, content_type |-> Undef]

extractTrajectoryFromMetadata(metadata) ==
    IF metadata = <<>> THEN <<>>
    ELSE LET m == Head(metadata)
         IN  IF TRAJECTORY_URI \in DOMAIN m /\ m[TRAJECTORY_URI].shape \in {"object", "array", "wrapper"}
             THEN IF m[TRAJECTORY_URI].shape = "object"
                  THEN Some(m[TRAJECTORY_URI].val)
                  ELSE Some(NoTrajectory)
             ELSE <<>>

\* items.filter(item => typeof item === 'object' && item !== null)
RECURSIVE objectItems(_)
objectItems(items) ==
    IF items = <<>> THEN <<>>
    ELSE (IF Head(items).shape = "object" THEN <<Head(items).val>> ELSE <<>>) \o objectItems(Tail(items))

\* extractCitations(metadata): the list of citation objects
extractCitations(metadata) ==
    IF metadata = <<>> THEN <<>>
    ELSE LET m == Head(metadata)
         IN  IF CITATION_URI \notin DOMAIN m THEN <<>>
             ELSE CASE m[CITATION_URI].shape = "array" -> objectItems(m[CITATION_URI].items)
                    [] m[CITATION_URI].shape = "wrapper" -> objectItems(m[CITATION_URI].items)
                    [] m[CITATION_URI].shape = "object" -> <<m[CITATION_URI].val>>
                    [] OTHER -> <<>>

\* what parseTrajectoryContent makes of the parsed JSON object: <<>> when it
\* is neither a tool call nor a tool result
fromParsed(parsed) ==
    IF ~parsed.valid THEN <<>>
    ELSE IF parsed.type = "tool_call" \/ parsed.content_type = "tool_call"
         THEN Some([type |-> "tool_call",
                    toolName |-> Or(parsed.tool_name, parsed.td.tool_name),
                    args |-> Or(parsed.args, parsed.td.args),
                    result |-> Undef, status |-> Undef])
    ELSE IF parsed.type = "tool_result" \/ parsed.content_type = "tool_result"
         THEN Some([type |-> "tool_result",
                    toolName |-> Or(parsed.tool_name, parsed.td.tool_name),
                    args |-> Undef,
                    result |-> Or(Or(parsed.result, parsed.result_preview), parsed.td.result_preview),
                    status |-> Or(Or(parsed.status, parsed.td.status), "success")])
    ELSE <<>>

fromFence(jsonMatch) == IF jsonMatch = <<>> THEN <<>> ELSE fromParsed(JsonDoc(Head(jsonMatch)))

\* the embedded JSON's verdict: <<>> when there is no fenced block, the parse
\* throws, or the object is neither a tool call nor a tool result
parseEmbeddedJson(content) == fromFence(FirstFence(content))

Untyped(type) == [type |-> type, toolName |-> Undef, args |-> Undef, result |-> Undef, status |-> Undef]

\* the plain-text fallback of parseTrajectoryContent
parseKeywords(content) ==
    IF Includes(ContentWords(content), "**Arguments:**")
       \/ Includes(ToLower(ContentWords(content)), "calling")
    THEN Untyped("tool_call")
    ELSE IF Includes(ContentWords(content), "**Result:**")
            \/ Includes(ContentWords(content), "**Status:**")
    THEN Untyped("tool_result")
    ELSE Untyped("text")

jsonOrKeywords(json, content) == IF json # <<>> THEN Head(json) ELSE parseKeywords(content)

parseTrajectoryContent(content) ==
    IF content = <<>> THEN Untyped("text")
    ELSE jsonOrKeywords(parseEmbeddedJson(content), content)

\* a variant that tries the result phrases before the call phrases
inferContentTypeFromTitle_ResultFirst(title) ==
    LET lowerTitle == ToLower(title)
    IN  IF title = <<>> THEN "null"
        ELSE IF Includes(lowerTitle, "result") \/ Includes(lowerTitle, "completed")
             THEN CONTENT_TYPES.TOOL_RESULT
        ELSE IF Includes(lowerTitle, "calling") \/ IncludesToolCall(lowerTitle)
             THEN CONTENT_TYPES.TOOL_CALL
        ELSE IF Includes(lowerTitle, "thinking") \/ Includes(lowerTitle, "reasoning")
             THEN CONTENT_TYPES.THINKING
        ELSE IF Includes(lowerTitle, "status") \/ Includes(lowerTitle, "progress")
             THEN CONTENT_TYPES.STATUS
        ELSE "null"

inferContentTypeFromTitle(title) ==
    LET lowerTitle == ToLower(title)
    IN  IF title = <<>> THEN "null"
        ELSE IF Includes(lowerTitle, "calling") \/ IncludesToolCall(lowerTitle)
             THEN CONTENT_TYPES.TOOL_CALL
        ELSE IF Includes(lowerTitle, "result") \/ Includes(lowerTitle, "completed")
             THEN CONTENT_TYPES.TOOL_RESULT
        ELSE IF Includes(lowerTitle, "thinking") \/ Includes(lowerTitle, "reasoning")
             THEN CONTENT_TYPES.THINKING
        ELSE IF Includes(lowerTitle, "status") \/ Includes(lowerTitle, "progress")
             THEN CONTENT_TYPES.STATUS
        ELSE "null"

\* ---------------------------------------------------- trajectory translators
\* title.match(/(?:Calling|Tool Call:?)\s*(\S+)/i)?.[1], leftmost match; the
\* title "... Tool Call:" with nothing after it matches with group ":".
callNameMatch(title) ==
    LET lt == ToLower(title)
        at(i) == IF lt[i] = "calling" /\ i < Len(title) THEN Some(title[i + 1])
                 ELSE IF lt[i] = "tool" /\ i < Len(title) /\ lt[i + 1] = "call:"
                      THEN IF i + 1 < Len(title) THEN Some(title[i + 2]) ELSE Some(":")
                 ELSE <<>>
        hits == {i \in 1..Len(title) : at(i) # <<>>}
    IN  IF hits = {} THEN Undef
        ELSE Head(at(CHOOSE i \in hits : \A k \in hits : i <= k))

\* title.match(/^(\S+)\s*Result/i)?.[1]
resultNameMatch(title) ==
    IF Len(title) >= 2 /\ Lower(title[2]) = "result" THEN title[1] ELSE Undef

createToolCallFromTrajectory(trajectory, parsedContent) ==
    LET toolName == Or(Or(parsedContent.toolName, callNameMatch(trajectory.title)), "tool")
        description == StripFences(trajectory.content)
        step == [title |-> IF trajectory.title # <<>> THEN trajectory.title ELSE <<"Calling", toolName>>,
                 tool_name |-> toolName,
                 status |-> ChainOfThoughtStepStatus.PROCESSING]
                @@ Opt(description # <<>>, [description |-> description])
                @@ Opt(Truthy(parsedContent.args), [request |-> [args |-> parsedContent.args]])
    IN  [response_type |-> "chain_of_thought", chain_of_thought |-> [steps |-> <<step>>]]

\* a variant that trusts the parsed status alone
createToolResultFromTrajectory_StatusOnly(trajectory, parsedContent) ==
    LET toolName == Or(Or(parsedContent.toolName, resultNameMatch(trajectory.title)), "tool")
        description == StripFences(trajectory.content)
        step == [title |-> IF trajectory.title # <<>> THEN trajectory.title ELSE <<toolName, "completed">>,
                 tool_name |-> toolName,
                 status |-> IF parsedContent.status = "error" THEN ChainOfThoughtStepStatus.ERROR
                            ELSE ChainOfThoughtStepStatus.SUCCESS]
                @@ Opt(description # <<>>, [description |-> description])
                @@ Opt(Truthy(parsedContent.result), [response |-> [content |-> parsedContent.result]])
    IN  [response_type |-> "chain_of_thought", chain_of_thought |-> [steps |-> <<step>>]]

createToolResultFromTrajectory(trajectory, parsedContent) ==
    LET toolName == Or(Or(parsedContent.toolName, resultNameMatch(trajectory.title)), "tool")
        isError == \/ parsedContent.status = "error"
                   \/ Includes(ToLower(ContentWords(trajectory.content)), "error")
                   \/ Includes(ToLower(trajectory.title), "failed")
        description == StripFences(trajectory.content)
        step == [title |-> IF trajectory.title # <<>> THEN trajectory.title ELSE <<toolName, "completed">>,
                 tool_name |-> toolName,
                 status |-> IF isError THEN ChainOfThoughtStepStatus.ERROR
                            ELSE ChainOfThoughtStepStatus.SUCCESS]
                @@ Opt(description # <<>>, [description |-> description])
                @@ Opt(Truthy(parsedContent.result), [response |-> [content |-> parsedContent.result]])
    IN  [response_type |-> "chain_of_thought", chain_of_thought |-> [steps |-> <<step>>]]

\* a variant that tags the reasoning message as text
createReasoningFromTrajectory_TextTag(trajectory) ==
    [response_type |-> "text",
     reasoning_steps |-> [steps |-> <<[content |-> [heading |-> trajectory.title, body |-> trajectory.content]]>>,
                          openState |-> "closed"]]

\* the reasoning text: `**${title}**\n\n${content}`, kept as its two parts
createReasoningFromTrajectory(trajectory) ==
    LET content == IF trajectory.content # <<>> THEN trajectory.content
                   ELSE [i \in 1..Len(trajectory.title) |-> Word(trajectory.title[i])]
    IN  [response_type |-> "reasoning_steps",
         reasoning_steps |-> [steps |-> <<[content |-> [heading |-> trajectory.title, body |-> content]]>>,
                              openState |-> "closed"]]

\* a variant that shows the status as a chain-of-thought step
createStatusFromTrajectory_AsStep(trajectory) ==
    [response_type |-> "chain_of_thought",
     chain_of_thought |-> [steps |-> <<[title |-> trajectory.title, tool_name |-> "status",
                                        status |-> ChainOfThoughtStepStatus.SUCCESS]>>]]

createStatusFromTrajectory(trajectory) ==
    [response_type |-> "user_defined",
     user_defined |-> [type |-> "status_message",
                       message |-> IF trajectory.title # <<>>
                                   THEN [i \in 1..Len(trajectory.title) |-> Word(trajectory.title[i])]
                                   ELSE trajectory.content,
                       metadata |-> [group_id |-> trajectory.group_id]]]

\* a variant that lets the title decide before the explicit tag
resolveContentType_TitleFirst(explicitType, inferredType, parsedType) ==
    Or(Or(inferredType, explicitType), parsedType)

\* explicitType || inferredType || parsedContent.type
resolveContentType(explicitType, inferredType, parsedType) ==
    Or(Or(explicitType, inferredType), parsedType)

\* a variant whose default case always makes a reasoning message
routeTrajectory_DefaultReasoning(trajectory, parsedContent, contentType) ==
    CASE contentType = CONTENT_TYPES.TOOL_CALL ->
           Some(createToolCallFromTrajectory(trajectory, parsedContent))
      [] contentType = CONTENT_TYPES.TOOL_RESULT ->
           Some(createToolResultFromTrajectory(trajectory, parsedContent))
      [] contentType = CONTENT_TYPES.THINKING ->
           Some(createReasoningFromTrajectory(trajectory))
      [] contentType = CONTENT_TYPES.STATUS ->
           Some(createStatusFromTrajectory(trajectory))
      [] OTHER ->
           Some(createReasoningFromTrajectory(trajectory))

\* the switch on the resolved content type
routeTrajectory(trajectory, parsedContent, contentType) ==
    CASE contentType = CONTENT_TYPES.TOOL_CALL ->
           Some(createToolCallFromTrajectory(trajectory, parsedContent))
      [] contentType = CONTENT_TYPES.TOOL_RESULT ->
           Some(createToolResultFromTrajectory(trajectory, parsedContent))
      [] contentType = CONTENT_TYPES.THINKING ->
           Some(createReasoningFromTrajectory(trajectory))
      [] contentType = CONTENT_TYPES.STATUS ->
           Some(createStatusFromTrajectory(trajectory))
      [] OTHER ->
           IF trajectory.content # <<>>
           THEN Some(createReasoningFromTrajectory(trajectory))
           ELSE <<>>

classifyTrajectory(trajectory, parsedContent) ==
    routeTrajectory(trajectory, parsedContent,
                    resolveContentType(trajectory.content_type,
                                       inferContentTypeFromTitle(trajectory.title),
                                       parsedContent.type))

translateTrajectory(trajectory) ==
    IF trajectory.title = <<>> /\ trajectory.content = <<>> THEN <<>>
    ELSE classifyTrajectory(trajectory, parseTrajectoryContent(trajectory.content))

\* ---------------------------------------------------------- part translators
\* A part is [kind, text, file, data, metadata]; file, data and metadata are
\* optional (<<>> or <<v>>).  translateMetadataPart .. translateGenericDataPart
\* return an optional message.
translateMetadataPart(part) ==
    LET contentType == Head(part.metadata).content_type
    IN  CASE contentType = CONTENT_TYPES.THINKING ->
               Some([response_type |-> "reasoning_steps",
                     reasoning_steps |-> [steps |-> <<[content |-> part.text]>>, openState |-> "closed"]])
          [] contentType = CONTENT_TYPES.RESPONSE ->
               Some([response_type |-> "text"] @@ Opt(part.text # <<>>, [text |-> part.text]))
          [] contentType = CONTENT_TYPES.STATUS ->
               Some([response_type |-> "user_defined",
                     user_defined |-> [type |-> "status_message", message |-> part.text,
                                       metadata |-> Head(part.metadata)]])
          [] OTHER -> <<>>

\* part.data is an object [shape |-> "object", type, title, tool_name,
\* description, args, result, error]
translateDataPart(part) ==
    LET data == Head(part.data)
    IN  CASE data.type = "tool_call" ->
               Some([response_type |-> "chain_of_thought",
                     chain_of_thought |-> [steps |-> <<
                        [title |-> IF Truthy(data.title) THEN <<data.title>>
                                   ELSE <<"Calling", Or(data.tool_name, "tool")>>,
                         status |-> ChainOfThoughtStepStatus.PROCESSING]
                        @@ Opt(data.tool_name # Undef, [tool_name |-> data.tool_name])
                        @@ Opt(data.description # Undef, [description |-> data.description])
                        @@ Opt(Truthy(data.args), [request |-> [args |-> data.args]])>>]])
          [] data.type = "tool_result" ->
               Some([response_type |-> "chain_of_thought",
                     chain_of_thought |-> [steps |-> <<
                        [title |-> IF Truthy(data.title) THEN <<data.title>>
                                   ELSE <<Or(data.tool_name, "Tool"), "completed">>,
                         status |-> IF Truthy(data.error) THEN ChainOfThoughtStepStatus.ERROR
                                    ELSE ChainOfThoughtStepStatus.SUCCESS]
                        @@ Opt(data.tool_name # Undef, [tool_name |-> data.tool_name])
                        @@ Opt(data.description # Undef, [description |-> data.description])
                        @@ Opt(Truthy(data.args), [request |-> [args |-> data.args]])
                        @@ Opt(Truthy(data.result), [response |-> [content |-> data.result]])>>]])
          [] OTHER -> <<>>

\* mimeType.startsWith('image/')
IsImageMime(mimeType) == mimeType \in {"image/png", "image/svg+xml"}

\* a variant that ignores the letter case of the name
IsChartName_AnyCase(name) == name \in {"sales_chart.pdf", "flowgraph.png", "Chart.pdf"}

\* name.includes('chart') || name.includes('graph'), case-sensitive
IsChartName(name) == name \in {"sales_chart.pdf", "flowgraph.png"}

\* the static factory methods
createToolCallMessage(toolName, args, description) ==
    [response_type |-> "chain_of_thought",
     chain_of_thought |-> [steps |-> <<
        [title |-> <<"Calling", toolName>>, tool_name |-> toolName,
         status |-> ChainOfThoughtStepStatus.PROCESSING]
        @@ Opt(description # Undef, [description |-> description])
        @@ Opt(Truthy(args), [request |-> [args |-> args]])>>]]

createToolResultMessage(toolName, result, args, error, description) ==
    [response_type |-> "chain_of_thought",
     chain_of_thought |-> [steps |-> <<
        [title |-> <<toolName, IF Truthy(error) THEN "failed" ELSE "completed">>,
         tool_name |-> toolName,
         response |-> [content |-> result],
         status |-> IF Truthy(error) THEN ChainOfThoughtStepStatus.ERROR
                    ELSE ChainOfThoughtStepStatus.SUCCESS]
        @@ Opt(description # Undef, [description |-> description])
        @@ Opt(Truthy(args), [request |-> [args |-> args]])>>]]

createReasoningMessage(content, openState) ==
    [response_type |-> "reasoning_steps",
     reasoning_steps |-> [steps |-> <<[content |-> content]>>,
                          openState |-> IF openState = Undef THEN "closed" ELSE openState]]

base64ToDataUrl(base64, mimeType) == <<"data:", mimeType, ";base64,", base64>>

\* the message a throwing translator leaves in place of its result: the
\* TypeError propagates to the caller of translateTask / translateStreamingPart
Thrown == [response_type |-> "!TypeError"]

translateFilePart(part, artifact) ==
    IF part.file = <<>> THEN <<>>
    ELSE LET file == Head(part.file)
             url == IF Truthy(file.uri) THEN <<file.uri>>
                    ELSE base64ToDataUrl(Or(file.bytes, "''"), file.mimeType)
         IN  IF file.mimeType = Undef THEN Some(Thrown)
             ELSE IF IsImageMime(file.mimeType)
             THEN Some([response_type |-> "image",
                        user_defined |-> [type |-> "image", url |-> url, alt |-> file.name]
                            @@ Opt(artifact # <<>> /\ Head(artifact).description # Undef,
                                   [caption |-> Head(artifact).description])])
             ELSE IF IsChartName(file.name)
             THEN Some([response_type |-> "user_defined",
                        user_defined |-> [type |-> "chart", imageUrl |-> url]
                            @@ Opt(artifact # <<>> /\ Head(artifact).name # Undef,
                                   [title |-> Head(artifact).name])
                            @@ Opt(artifact # <<>> /\ Head(artifact).description # Undef,
                                   [description |-> Head(artifact).description])])
             ELSE Some([response_type |-> "user_defined",
                        user_defined |-> [type |-> "file_attachment", fileName |-> file.name,
                                          mimeType |-> file.mimeType]
                            @@ Opt(file.uri # Undef, [downloadUrl |-> file.uri])
                            @@ Opt(file.bytes # Undef, [size |-> file.bytes])])

\* a variant that takes the columns from the last row
translateGenericDataPart_LastRowKeys(part) ==
    IF part.data = <<>> THEN <<>>
    ELSE LET data == Head(part.data)
         IN  IF data.shape = "array" /\ Len(data.rows) > 0 /\ data.rows[1].shape \in {"object", "null"}
             THEN IF data.rows[1].shape = "null" THEN Some(Thrown)
                  ELSE Some([response_type |-> "user_defined",
                             user_defined |-> [type |-> "data_table", columns |-> data.rows[Len(data.rows)].keys,
                                               rows |-> data.rows]])
             ELSE Some([response_type |-> "user_defined",
                        user_defined |-> [type |-> "structured_data", data |-> data]])

\* part.data is [shape |-> "array", rows] with rows a sequence of
\* [shape, keys], or any other value
translateGenericDataPart(part) ==
    IF part.data = <<>> THEN <<>>
    ELSE LET data == Head(part.data)
         IN  IF data.shape = "array" /\ Len(data.rows) > 0 /\ data.rows[1].shape \in {"object", "null"}
             THEN IF data.rows[1].shape = "null" THEN Some(Thrown)
                  ELSE Some([response_type |-> "user_defined",
                             user_defined |-> [type |-> "data_table", columns |-> data.rows[1].keys,
                                               rows |-> data.rows]])
             ELSE Some([response_type |-> "user_defined",
                        user_defined |-> [type |-> "structured_data", data |-> data]])

\* message.metadata = extensionMetadata, when there is a message and metadata
WithMetadata(message, extensionMetadata) ==
    IF message # <<>> /\ extensionMetadata # <<>> /\ Head(message) # Thrown
    THEN Some([metadata |-> Head(extensionMetadata)] @@ Head(message))
    ELSE message

translatePart(part, artifact) ==
    LET extensionMetadata == IF artifact = <<>> THEN <<>> ELSE Head(artifact).metadata
        partTrajectory == extractTrajectoryFromMetadata(part.metadata)
    IN  IF partTrajectory # <<>> THEN translateTrajectory(Head(partTrajectory))
        ELSE IF part.metadata # <<>> /\ "content_type" \in DOMAIN Head(part.metadata)
                /\ Truthy(Head(part.metadata).content_type)
        THEN WithMetadata(translateMetadataPart(part), extensionMetadata)
        ELSE IF part.kind = "data" /\ part.data # <<>> /\ Head(part.data).shape = "object"
                /\ Truthy(Head(part.data).type)
        THEN WithMetadata(translateDataPart(part), extensionMetadata)
        ELSE CASE part.kind = "text" ->
                    Some([response_type |-> "text"]
                         @@ Opt(part.text # <<>>, [text |-> part.text])
                         @@ Opt(extensionMetadata # <<>>, [metadata |-> Head(extensionMetadata)]))
               [] part.kind = "file" ->
                    WithMetadata(translateFilePart(part, artifact), extensionMetadata)
               [] part.kind = "data" ->
                    WithMetadata(translateGenericDataPart(part), extensionMetadata)
               [] OTHER -> <<>>

\* translateStreamingPart(part, metadata): metadata is optional
translateStreamingPart(part, metadata) ==
    LET trajectoryData == extractTrajectoryFromMetadata(metadata)
        artifact == IF metadata # <<>>
                    THEN Some([artifactId |-> "", name |-> Undef, description |-> Undef,
                               parts |-> <<>>, metadata |-> metadata])
                    ELSE <<>>
    IN  IF trajectoryData # <<>> THEN translateTrajectory(Head(trajectoryData))
        ELSE translatePart(part, artifact)

\* a variant that pushes the artifact-level trajectory message after the parts
artifactMessages_PartsFirst(artifact) ==
    LET artifactTrajectory == extractTrajectoryFromMetadata(artifact.metadata)
        trajectoryMessage == IF artifactTrajectory # <<>>
                             THEN translateTrajectory(Head(artifactTrajectory))
                             ELSE <<>>
    IN  Concat([i \in 1..Len(artifact.parts) |-> translatePart(artifact.parts[i], Some(artifact))])
        \o trajectoryMessage

\* the messages pushed for one artifact: the artifact-level trajectory message
\* (if any), then one per part in order
artifactMessages(artifact) ==
    LET artifactTrajectory == extractTrajectoryFromMetadata(artifact.metadata)
        trajectoryMessage == IF artifactTrajectory # <<>>
                             THEN translateTrajectory(Head(artifactTrajectory))
                             ELSE <<>>
    IN  trajectoryMessage
        \o Concat([i \in 1..Len(artifact.parts) |-> translatePart(artifact.parts[i], Some(artifact))])

\* translateTask(task): the message list, or the TypeError a part raised
translateTask(task) ==
    LET messages == Concat([a \in 1..Len(task.artifacts) |-> artifactMessages(task.artifacts[a])])
    IN  IF \E i \in 1..Len(messages) : messages[i] = Thrown
        THEN [threw |-> TRUE, messages |-> <<>>]
        ELSE [threw |-> FALSE, messages |-> messages]

\* ------------------------------------------------------- translator inputs
\* the sequences over S of length at most n
SeqsUpTo(S, n) == UNION {[1..k -> S] : k \in 0..n}

ExplicitTypes == {Undef, "tool_call", "tool_result", "thinking", "status", "banana"}

RecognizedTypes == {"tool_call", "tool_result", "thinking", "status"}

Traj(title, content, group, type) ==
    [title |-> title, content |-> content, group_id |-> group, content_type |-> type]

TrajectoryMeta(trajectory) ==
    Some([k \in {TRAJECTORY_URI} |-> [shape |-> "object", val |-> trajectory]])

BasePart(kind) == [kind |-> kind, text |-> <<>>, file |-> <<>>, data |-> <<>>, metadata |-> <<>>]

TextPart(text) == [BasePart("text") EXCEPT !.text = text]

FilePart(name, mimeType) ==
    [BasePart("file") EXCEPT !.file = Some([name |-> name, mimeType |-> mimeType, bytes |-> "QUJD", uri |-> Undef])]

TablePart ==
    [BasePart("data") EXCEPT !.data = Some([shape |-> "array",
        rows |-> <<[shape |-> "object", keys |-> <<"a", "b">>], [shape |-> "object", keys |-> <<"a", "c">>]>>])]

SampleParts ==
    { TextPart(<<"hello">>),
      FilePart("photo.png", "image/png"),
      FilePart("report.pdf", "application/pdf"),
      TablePart,
      [TextPart(<<"hello">>) EXCEPT !.metadata = TrajectoryMeta(Traj(<<"Thinking">>, <<Word("hello")>>, "g1", Undef))],
      [TextPart(<<"hello">>) EXCEPT !.metadata = Some([content_type |-> "status"])] }

SampleArtifactMetadata ==
    { <<>>,
      TrajectoryMeta(Traj(<<"Calling", "search_web">>, <<>>, "g1", Undef)),
      TrajectoryMeta(NoTrajectory),
      Some([citations |-> "c1"]) }

\* the task of n artifacts with metadata metas[a], whose parts are flat[i],
\* part i belonging to artifact owner[i]
TaskOf(n, metas, flat, owner) ==
    LET idx(a) == {i \in 1..Len(flat) : owner[i] = a}
        first(a) == CHOOSE i \in idx(a) : \A k \in idx(a) : i <= k
        partsOf(a) == [j \in 1..Cardinality(idx(a)) |-> flat[first(a) + j - 1]]
    IN  [id |-> "t1",
         artifacts |-> [a \in 1..n |->
            [artifactId |-> "a", name |-> Undef, description |-> Undef,
             parts |-> partsOf(a), metadata |-> metas[a]]]]

\* streamed chunks: a part and the metadata that came with it
SampleChunks ==
    {[part |-> TextPart(<<>>), metadata |-> TrajectoryMeta(Traj(t, c, g, Undef))] :
        t \in {<<"Calling", "search_web">>, <<"search_web", "Result">>},
        c \in {<<>>, <<Fence("J_CALL")>>, <<Fence("J_RESULT")>>},
        g \in {"g1", "g2"}}
    \cup {[part |-> TextPart(<<"hello">>), metadata |-> <<>>]}

\* single parts, with the metadata translateStreamingPart is given
FileNames == {"photo.png", "sales_chart.pdf", "flowgraph.png", "Chart.pdf", "report.pdf"}

MimeTypes == {"image/png", "application/pdf", Undef}

FileOf(name, mimeType, uri) ==
    [BasePart("file") EXCEPT !.file = Some([name |-> name, mimeType |-> mimeType, bytes |-> "QUJD", uri |-> uri])]

DataObject(type, error) ==
    [shape |-> "object", type |-> type, title |-> Undef, tool_name |-> "search_web",
     description |-> Undef, args |-> "args1", result |-> "res1", error |-> error]

Row(keys) == [shape |-> "object", keys |-> keys]

SampleData ==
    { DataObject("tool_call", Undef), DataObject("tool_result", Undef), DataObject("tool_result", "true"),
      DataObject("metrics", Undef), DataObject(Undef, Undef),
      [shape |-> "array", rows |-> <<Row(<<"a", "b">>), Row(<<"a", "c">>)>>],
      [shape |-> "array", rows |-> <<>>],
      [shape |-> "array", rows |-> <<[shape |-> "null"], Row(<<"a">>)>>],
      [shape |-> "array", rows |-> <<[shape |-> "number"], [shape |-> "number"]>>],
      [shape |-> "string"] }

DataPart(data) == [BasePart("data") EXCEPT !.data = Some(data)]

PartMetadata ==
    {<<>>, TrajectoryMeta(Traj(<<"Status">>, <<Word("hello")>>, "g1", Undef))}
    \cup {Some([content_type |-> t, group_id |-> "g7"]) : t \in {"thinking", "response", "status", "banana"}}

Parts ==
    {[TextPart(<<"hello">>) EXCEPT !.metadata = md] : md \in PartMetadata}
    \cup {FileOf(n, m, u) : n \in FileNames, m \in MimeTypes, u \in {Undef, "https://files/f1"}}
    \cup {DataPart(d) : d \in SampleData}
    \cup {BasePart("video"), BasePart("file"), BasePart("data")}

StreamMetadata == {<<>>, Some([citations |-> "c1"])}

\* extension values: the objects, and the shapes one value can come in
ExtObjects ==
    { Traj(<<"Thinking">>, <<Word("hello")>>, "g1", Undef),
      Traj(<<"Calling", "search_web">>, <<>>, "g2", "tool_call") }

Shapes == {"object", "array", "wrapper"}

Shaped(o, shape) ==
    IF shape = "object" THEN [shape |-> "object", val |-> o]
    ELSE [shape |-> shape, items |-> <<[shape |-> "object", val |-> o]>>]

ExtValues ==
    {Shaped(o, sh) : o \in ExtObjects, sh \in Shapes}
    \cup {[shape |-> "string"], [shape |-> "array", items |-> <<>>],
          [shape |-> "array", items |-> <<[shape |-> "string"], [shape |-> "object", val |-> NoTrajectory]>>]}

\* metadata maps: undefined, without an extension key, or with values under
\* the citation and trajectory keys
ExtMetadata ==
    {<<>>, Some([citations |-> "c1"])}
    \cup {Some([k \in {CITATION_URI, TRAJECTORY_URI} |-> IF k = CITATION_URI THEN c ELSE t]) :
            c \in ExtValues, t \in ExtValues}

\* calls of the static factories
FactoryCalls ==
    {[fn |-> "createToolCallMessage", toolName |-> "search_web", args |-> a, description |-> d] :
        a \in {Undef, "args1"}, d \in {Undef, "looking"}}
    \cup {[fn |-> "createToolResultMessage", toolName |-> "search_web", result |-> r, args |-> a,
           error |-> e, description |-> d] :
        r \in {"res1", "''"}, a \in {Undef, "args1"}, e \in {Undef, "true", "false"}, d \in {Undef, "looking"}}
    \cup {[fn |-> "createReasoningMessage", content |-> <<"hello">>, openState |-> o] :
        o \in {Undef, "open", "closed"}}

\* ---------------------------------------------------- translator, as a machine
\* One run translates one input: a trajectory (translateTrajectory), a task
\* (translateTask), or a list of streamed chunks fed one at a time
\* (translateStreamingPart), one part (translateStreamingPart), or one call
\* of a static factory; tout collects what the calls return.
VARIABLES tmode, tin, tout, tfed

tvars == <<tmode, tin, tout, tfed>>

TranslatorOff == tmode = "off" /\ tin = <<>> /\ tout = <<>> /\ tfed = 0

\* ------------------------------------------------------------ stream lines
\* buffer.split('\n')
RECURSIVE Split(_)
Split(toks) ==
    LET nl == {i \in 1..Len(toks) : toks[i] = "\n"}
        first == CHOOSE i \in nl : \A k \in nl : i <= k
    IN  IF nl = {} THEN <<toks>>
        ELSE <<SubSeq(toks, 1, first - 1)>> \o Split(SubSeq(toks, first + 1, Len(toks)))

\* line.trim()
RECURSIVE Trim(_)
Trim(line) ==
    IF line # <<>> /\ Head(line) \in {" ", "\r"} THEN Trim(Tail(line))
    ELSE IF line # <<>> /\ line[Len(line)] \in {" ", "\r"} THEN Trim(SubSeq(line, 1, Len(line) - 1))
    ELSE line

\* the payload a line hands to JSON.parse: <<>> unless the trimmed line
\* starts with 'data: ', has text after it and is not the [DONE] marker.
\* ('data: ' alone trims to 'data:', which does not start with 'data: '.)
DataStr(line) ==
    LET trimmedLine == Trim(line)
    IN  IF Len(trimmedLine) >= 2 /\ trimmedLine[1] = "data: " /\ Tail(trimmedLine) # <<"[DONE]">>
        THEN Tail(trimmedLine)
        ELSE <<>>

\* a variant that forgets the unfinished line
remainder_Dropped(split) == <<>>

\* buffer = lines.pop() || '': the unfinished line is kept for the next read
remainder(split) == split[Len(split)]

\* the lines left after lines.pop(): the lines a read completes
completed(split) == SubSeq(split, 1, Len(split) - 1)

\* The read loop on its own: a stream text cut into the pieces the
\* successive reader.read() calls return.
MaxReads == 3

SampleTexts ==
    { <<"data: ", "E_TEXT", "\n", "data: ", "{bad", "\r", "\n", " ", "data: ", "E_TWO", "\n", "data: ", "E_CALL">>,
      <<"\n", "data: ", "[DONE]", "\n", "data: ", "\n", "E_TEXT", "\n">> }

RECURSIVE CutAt(_, _)
CutAt(text, cuts) ==
    IF cuts = {} THEN <<text>>
    ELSE LET c == CHOOSE x \in cuts : \A y \in cuts : x <= y
         IN  <<SubSeq(text, 1, c)>> \o CutAt(SubSeq(text, c + 1, Len(text)), {x - c : x \in cuts \ {c}})

\* the payloads of the lines that reach JSON.parse
RECURSIVE payloads(_)
payloads(ls) ==
    IF ls = <<>> THEN <<>>
    ELSE (IF DataStr(Head(ls)) # <<>> THEN <<DataStr(Head(ls))>> ELSE <<>>) \o payloads(Tail(ls))

\* a trajectory has at most MaxLen words; a task's artifacts and parts are
\* at most MaxTaskSize together
InitTrajectory ==
    /\ tmode = "trajectory"
    /\ \E t \in SeqsUpTo(TitleWords, MaxLen) :
         \E c \in SeqsUpTo(Pieces, MaxLen - Len(t)) :
            \E e \in ExplicitTypes : tin = Traj(t, c, "g1", e)

InitTask ==
    /\ tmode = "task"
    /\ \E n \in 0..MaxTaskSize :
         \E metas \in [1..n -> SampleArtifactMetadata] :
            \E m \in 0..(IF n = 0 THEN 0 ELSE MaxTaskSize - n) :
               \E flat \in [1..m -> SampleParts] :
                  \E owner \in {o \in [1..m -> 1..n] : \A i \in 1..m : \A j \in i..m : o[i] <= o[j]} :
                     tin = TaskOf(n, metas, flat, owner)

InitStream ==
    /\ tmode = "stream"
    /\ tin \in SeqsUpTo(SampleChunks, MaxChunks)

InitPart ==
    /\ tmode = "part"
    /\ \E p \in Parts : \E md \in StreamMetadata : tin = [part |-> p, metadata |-> md]

InitFactory ==
    /\ tmode = "factory"
    /\ tin \in FactoryCalls

InitReads ==
    /\ tmode = "reads"
    /\ \E text \in SampleTexts :
         \E cuts \in {c \in SUBSET (1..(Len(text) - 1)) : Cardinality(c) < MaxReads} :
            tin = CutAt(text, cuts)
    /\ tout = [buffer |-> <<>>, processed |-> <<>>]
    /\ tfed = 0

InitExtract ==
    /\ tmode = "extract"
    /\ tin \in ExtMetadata

InitTranslator ==
    \/ /\ InitTrajectory \/ InitTask \/ InitStream \/ InitPart \/ InitFactory \/ InitExtract
       /\ tout = <<>>
       /\ tfed = 0
    \/ InitReads

TranslateTrajectory ==
    /\ tmode = "trajectory" /\ tfed = 0
    /\ tout' = translateTrajectory(tin)
    /\ tfed' = 1
    /\ UNCHANGED <<tmode, tin>>

TranslateTask ==
    /\ tmode = "task" /\ tfed = 0
    /\ tout' = translateTask(tin)
    /\ tfed' = 1
    /\ UNCHANGED <<tmode, tin>>

FeedChunk ==
    /\ tmode = "stream" /\ tfed < Len(tin)
    /\ tout' = tout \o translateStreamingPart(tin[tfed + 1].part, tin[tfed + 1].metadata)
    /\ tfed' = tfed + 1
    /\ UNCHANGED <<tmode, tin>>

TranslatePart ==
    /\ tmode = "part" /\ tfed = 0
    /\ tout' = translateStreamingPart(tin.part, tin.metadata)
    /\ tfed' = 1
    /\ UNCHANGED <<tmode, tin>>

\* one turn of the read loop: append the piece, split, keep the remainder,
\* process the completed lines
readStep(state, split) ==
    [buffer |-> remainder(split), processed |-> state.processed \o payloads(completed(split))]

ReadPiece ==
    /\ tmode = "reads" /\ tfed < Len(tin)
    /\ tout' = readStep(tout, Split(tout.buffer \o tin[tfed + 1]))
    /\ tfed' = tfed + 1
    /\ UNCHANGED <<tmode, tin>>

Extract ==
    /\ tmode = "extract" /\ tfed = 0
    /\ tout' = [citations |-> extractCitations(tin), trajectory |-> extractTrajectoryFromMetadata(tin)]
    /\ tfed' = 1
    /\ UNCHANGED <<tmode, tin>>

CallFactory ==
    /\ tmode = "factory" /\ tfed = 0
    /\ tout' = Some(CASE tin.fn = "createToolCallMessage" ->
                          createToolCallMessage(tin.toolName, tin.args, tin.description)
                     [] tin.fn = "createToolResultMessage" ->
                          createToolResultMessage(tin.toolName, tin.result, tin.args, tin.error, tin.description)
                     [] OTHER -> createReasoningMessage(tin.content, tin.openState))
    /\ tfed' = 1
    /\ UNCHANGED <<tmode, tin>>


\* ------------------------------------------------------------ SSE transport
\* The response body is a text stream, modelled as a sequence of tokens: the
\* line feed, white space, the 'data: ' prefix, and payload texts by name.
\* What JSON.parse makes of a payload text: valid = FALSE, it throws.
\* A result carries taskId, contextId, status.state, the parts, the metadata
\* and, as form, what status.message.metadata holds under the form-request
\* key (<<>> when absent).  E_FORM_TASK is a Task object, which has an id and
\* no taskId.
Result(taskId, state, parts, metadata, form) ==
    [taskId |-> taskId, contextId |-> "c1", state |-> state, parts |-> parts,
     metadata |-> metadata, form |-> form]

NoResult == Result(Undef, Undef, <<>>, <<>>, <<>>)

EventDoc(tok) ==
    CASE tok = "E_TEXT" ->
           [valid |-> TRUE, hasResult |-> TRUE,
            result |-> Result("t1", "working", <<TextPart(<<"hello">>)>>, <<>>, <<>>)]
      [] tok = "E_TWO" ->
           [valid |-> TRUE, hasResult |-> TRUE,
            result |-> Result("t1", "working",
                              <<TextPart(<<"hello">>), FilePart("photo.png", "image/png")>>, <<>>, <<>>)]
      [] tok = "E_CALL" ->
           [valid |-> TRUE, hasResult |-> TRUE,
            result |-> Result("t1", "working", <<TextPart(<<>>)>>,
                              TrajectoryMeta(Traj(<<"Calling", "search_web">>, <<>>, "g1", Undef)), <<>>)]
      [] tok = "E_STATUS" ->
           [valid |-> TRUE, hasResult |-> TRUE,
            result |-> Result("t1", "working", <<>>, <<>>, <<>>)]
      [] tok = "E_THROW" ->
           [valid |-> TRUE, hasResult |-> TRUE,
            result |-> Result("t1", "working", <<FileOf("photo.png", Undef, Undef)>>, <<>>, <<>>)]
      [] tok = "E_FORM" ->
           [valid |-> TRUE, hasResult |-> TRUE,
            result |-> Result("t1", "input-required", <<TextPart(<<"hello">>)>>, <<>>,
                              Some([uri |-> FORM_REQUEST_URI, id |-> "form1"]))]
      [] tok = "E_FORM_TASK" ->
           [valid |-> TRUE, hasResult |-> TRUE,
            result |-> Result(Undef, "input-required", <<>>, <<>>,
                              Some([uri |-> FORM_REQUEST_URI, id |-> "form2"]))]
      [] tok = "E_NORESULT" -> [valid |-> TRUE, hasResult |-> FALSE, result |-> NoResult]
      [] OTHER -> [valid |-> FALSE, hasResult |-> FALSE, result |-> NoResult]

\* translateStreamChunk(result): the chunk's parts through
\* translateStreamingPart, in order
translateStreamChunk(result) ==
    Concat([i \in 1..Len(result.parts) |-> translateStreamingPart(result.parts[i], result.metadata)])

\* the response bodies an agent may send, each as the sequence of what the
\* successive reader.read() calls return
SampleBodies ==
    { <<>>,
      << <<"data: ", "E_TWO", "\n", "data: ", "E_TEXT", "\n">> >>,
      << <<"data: ", "E_CALL">>, <<"\r", "\n", "data: ", "[DONE]", "\n">> >>,
      << <<"data: ", "{bad", "\n", "data: ", "\n", "data: ", "[DONE]", "\n", "data: ", "E_THROW", "\n",
            "data: ", "E_STATUS", "\n", "data: ", "E_TEXT", "\n">> >>,
      << <<"data: ", "E_FORM", "\n">>, <<"data: ", "E_FORM_TASK", "\n">> >> }

\* the parsed data.result of a line, when JSON.parse succeeds and there is one
LineResult(line) ==
    LET dataStr == DataStr(line)
    IN  IF Len(dataStr) = 1 /\ EventDoc(dataStr[1]).valid /\ EventDoc(dataStr[1]).hasResult
        THEN Some(EventDoc(dataStr[1]).result)
        ELSE <<>>

\* a variant that lets the chunks of a failed translation through
caught_Kept(carbonChunks) == carbonChunks

\* a translation that throws is caught with the parse errors and the line
\* gives nothing
caught(carbonChunks) ==
    IF \E i \in 1..Len(carbonChunks) : carbonChunks[i] = Thrown THEN <<>> ELSE carbonChunks

chunksOf(result) == IF result = <<>> THEN <<>> ELSE caught(translateStreamChunk(Head(result)))

\* the carbonChunks of a line
LineChunks(line) == chunksOf(LineResult(line))

\* extractFormRequest(chunk): the form descriptor under the form-request key
\* of chunk.status.message.metadata, <<>> for null
extractFormRequest(chunk) ==
    IF chunk.form # <<>> /\ Head(chunk.form).uri = FORM_REQUEST_URI THEN Some(Head(chunk.form).id) ELSE <<>>

\* the form request a result asks for once its chunks are handed over: the
\* descriptor and data.result.taskId
formOf(result) ==
    IF result.state = "input-required" /\ extractFormRequest(result) # <<>>
    THEN Some([form |-> Head(extractFormRequest(result)), taskId |-> result.taskId])
    ELSE <<>>

\* the form request of a line; none when the line has no result or its
\* translation throws
resultForm(result) ==
    IF result = <<>> THEN <<>>
    ELSE IF \E i \in 1..Len(translateStreamChunk(Head(result))) : translateStreamChunk(Head(result))[i] = Thrown
    THEN <<>>
    ELSE formOf(Head(result))

LineForm(line) == resultForm(LineResult(line))

\* ------------------------------------------------------------ useMultiAgent
\* The hook's state: the registered agents, in order, and the id of the
\* current one.  An agent is [id, name]; the id "null" is null.
AgentIds == {"research", "code", "data"}

AgentNames == {"v1", "v2"}

MaxAgents == 3

VARIABLES agents, currentAgentId

avars == <<agents, currentAgentId>>

AgentsOff == agents = <<>> /\ currentAgentId = "off"

AgentConfig(id, name) == [id |-> id, name |-> name]

idsOf(list) == {list[i].id : i \in 1..Len(list)}

\* agents.find(a => a.id === agentId), as an optional value
findAgent(list, agentId) ==
    IF agentId \in idsOf(list)
    THEN Some(list[CHOOSE i \in 1..Len(list) : list[i].id = agentId /\ \A k \in 1..(i - 1) : list[k].id # agentId])
    ELSE <<>>

\* the currentAgent memo
currentAgent == findAgent(agents, currentAgentId)

\* useState(initialAgents), useState(defaultAgentId ?? initialAgents[0]?.id ?? null)
InitAgents ==
    /\ \E n \in 0..2 : \E ids \in [1..n -> AgentIds] :
          /\ \A i, j \in 1..n : i # j => ids[i] # ids[j]
          /\ agents = [i \in 1..n |-> AgentConfig(ids[i], "v1")]
    /\ \E defaultAgentId \in AgentIds \cup {Undef} :
          currentAgentId = IF defaultAgentId # Undef THEN defaultAgentId
                           ELSE IF agents # <<>> THEN agents[1].id ELSE "null"

SwitchAgent(agentId) ==
    /\ currentAgentId' = IF findAgent(agents, agentId) # <<>> THEN agentId ELSE currentAgentId
    /\ UNCHANGED agents

RegisterAgent(agent) ==
    /\ agent.id \in idsOf(agents) \/ Len(agents) < MaxAgents
    /\ agents' = IF agent.id \in idsOf(agents)
                 THEN [i \in 1..Len(agents) |-> IF agents[i].id = agent.id THEN agent ELSE agents[i]]
                 ELSE Append(agents, agent)
    /\ UNCHANGED currentAgentId

\* agents[0]?.id ?? null, on the list of the render the callback closed over
nextCurrent(list, agentId) == IF list # <<>> THEN list[1].id ELSE "null"

UnregisterAgent(agentId) ==
    /\ agents' = SelectSeq(agents, LAMBDA a : a.id # agentId)
    /\ currentAgentId' = IF currentAgentId = agentId THEN nextCurrent(agents, agentId)
                         ELSE currentAgentId

UpdateAgent(agentId, name) ==
    /\ agents' = [i \in 1..Len(agents) |->
                    IF agents[i].id = agentId THEN AgentConfig(agentId, name) ELSE agents[i]]
    /\ UNCHANGED currentAgentId

\* ------------------------------------------------- A2AChat and useA2AAgent
\* One chat session of the component (host = "A2AChat") or of the hook
\* (host = "useA2AAgent").  Each call of handleSendMessage / sendMessage is a
\* stream s, at pc[s]:
\*   "idle"  not started          "fetch" awaiting fetch()
\*   "read"  awaiting reader.read()
\*   "add"   awaiting instance.messaging.addMessageChunk() (A2AChat only)
\*   "done"  returned normally    "failed" caught an error
\*   "cancelled" caught an AbortError
\* The AbortController and the translator a send creates are named by the
\* stream's number; 0 is null.  bstate[s] is the response body stream:
\* "readable", "closed" (the agent ended it), "failed" (network error) or
\* "aborted" (errored by the abort signal).
\* History kept for the properties: delivered[s], the chunks handed to
\* addMessageChunk (line number, place in the line's carbonChunks, the
\* translator that made them, whether the stream's signal had fired);
\* uses[s], the translators stream s called; failure[s], the transport
\* failure thrown in stream s; the calls of onError and onResponse.
Streams == 1..MaxSends

VARIABLES host, agent, instanceRef, connectionState, isStreaming, error,
          abortControllerRef, translatorRef,
          pc, body, bstate, aborted, readPos, buffer, lines, queue, lineNo,
          delivered, uses, failure, onErrorCalls, onResponseCalls,
          autoConnect, taskId, contextId, onMessageCalls, sinceDisconnect,
          currentFormRequest, pendingTaskId, submitted, message

\* the hook's option and state beside the shared ones, and the calls of
\* onMessage (by line number)
hkvars == <<autoConnect, taskId, contextId, onMessageCalls>>

\* the component's form state and the calls of handleFormSubmit
formvars == <<currentFormRequest, pendingTaskId, submitted>>

cvars == <<host, agent, instanceRef, connectionState, isStreaming, error,
           abortControllerRef, translatorRef,
           pc, body, bstate, aborted, readPos, buffer, lines, queue, lineNo,
           delivered, uses, failure, onErrorCalls, onResponseCalls,
           hkvars, sinceDisconnect, formvars, message>>

stvars == <<body, bstate, aborted, readPos, buffer, lines, queue, lineNo, delivered, uses>>

vars == <<cvars, tvars, avars>>

InFlight(s) == pc[s] \in {"fetch", "read", "add"}

\* the message a send carries: plain text, or the JSON of a form response
NoMessage == [type |-> "none", taskId |-> Undef, values |-> Undef]

TextMessage == [type |-> "text", taskId |-> Undef, values |-> Undef]

FormValues == {"values1"}

FormResponse(id, values) == [type |-> "form_response", taskId |-> id, values |-> values]

ChatState ==
    /\ instanceRef = FALSE
    /\ connectionState = "disconnected"
    /\ isStreaming = FALSE
    /\ error = "null"
    /\ abortControllerRef = 0
    /\ translatorRef = 0
    /\ pc = [s \in Streams |-> "idle"]
    /\ body = [s \in Streams |-> <<>>]
    /\ bstate = [s \in Streams |-> "readable"]
    /\ aborted = [s \in Streams |-> FALSE]
    /\ readPos = [s \in Streams |-> 0]
    /\ buffer = [s \in Streams |-> <<>>]
    /\ lines = [s \in Streams |-> <<>>]
    /\ queue = [s \in Streams |-> [no |-> 0, k |-> 0, by |-> 0, chunks |-> <<>>, form |-> <<>>]]
    /\ lineNo = [s \in Streams |-> 0]
    /\ delivered = [s \in Streams |-> <<>>]
    /\ uses = [s \in Streams |-> {}]
    /\ failure = [s \in Streams |-> "none"]
    /\ onErrorCalls = [s \in 0..MaxSends |-> <<>>]
    /\ onResponseCalls = [s \in Streams |-> 0]
    /\ taskId = Undef
    /\ contextId = Undef
    /\ onMessageCalls = [s \in Streams |-> <<>>]
    /\ sinceDisconnect = FALSE
    /\ currentFormRequest = "null"
    /\ pendingTaskId = "null"
    /\ submitted = 0
    /\ message = [s \in Streams |-> NoMessage]

InitChat ==
    /\ host \in {"A2AChat", "useA2AAgent"}
    /\ agent \in {"configured", "null"}
    /\ autoConnect \in (IF host = "useA2AAgent" THEN BOOLEAN ELSE {FALSE})
    /\ ChatState

ChatOff == host = "off" /\ agent = "null" /\ autoConnect = FALSE /\ ChatState

\* handleAfterRender: the chat instance is ready
HandleAfterRender ==
    /\ host = "A2AChat"
    /\ instanceRef' = TRUE
    /\ UNCHANGED <<host, agent, connectionState, isStreaming, error, abortControllerRef,
                   translatorRef, pc, stvars, failure, onErrorCalls, onResponseCalls,
                   hkvars, sinceDisconnect, formvars, message>>

\* sendMessage without an agent: the hook sets the error, calls onError and
\* throws; no stream starts (onErrorCalls[0] takes these calls)
SendNoAgent ==
    /\ host = "useA2AAgent" /\ agent = "null"
    /\ Len(onErrorCalls[0]) < MaxSends
    /\ error' = "No agent configured"
    /\ onErrorCalls' = [onErrorCalls EXCEPT ![0] = Append(@, "No agent configured")]
    /\ sinceDisconnect' = FALSE
    /\ UNCHANGED <<host, agent, instanceRef, connectionState, isStreaming, abortControllerRef,
                   translatorRef, pc, stvars, failure, onResponseCalls, hkvars, formvars, message>>

\* handleSendMessage / sendMessage up to the await of fetch(): the next
\* stream starts, with the body b the agent will answer with.  (Without an
\* agent or a chat instance the component returns at once, changing nothing.)
SendMessage(s, b, m) ==
    /\ agent = "configured"
    /\ host = "A2AChat" => instanceRef
    /\ pc[s] = "idle" /\ \A r \in Streams : r < s => pc[r] # "idle"
    /\ isStreaming' = TRUE
    /\ connectionState' = "streaming"
    /\ error' = "null"
    /\ translatorRef' = s
    /\ abortControllerRef' = s
    /\ pc' = [pc EXCEPT ![s] = "fetch"]
    /\ body' = [body EXCEPT ![s] = b]
    /\ message' = [message EXCEPT ![s] = m]
    /\ sinceDisconnect' = FALSE
    /\ UNCHANGED <<host, agent, instanceRef, bstate, aborted, readPos, buffer, lines, queue,
                   lineNo, delivered, uses, failure, onErrorCalls, onResponseCalls, hkvars>>

Send(s, b) == SendMessage(s, b, TextMessage) /\ UNCHANGED formvars

\* (error as Error).name === 'AbortError'
IsAbortError_Never(err) == FALSE

IsAbortError(err) == err = "AbortError"

\* the catch and finally blocks for the error err thrown in stream s; a
\* variant first that reports the error without setting the error state
Catch_NoErrorState(s, err) ==
    /\ IF IsAbortError(err)
       THEN /\ pc' = [pc EXCEPT ![s] = "cancelled"]
            /\ UNCHANGED <<connectionState, error, onErrorCalls>>
       ELSE /\ pc' = [pc EXCEPT ![s] = "failed"]
            /\ UNCHANGED connectionState
            /\ error' = IF host = "useA2AAgent" THEN err ELSE error
            /\ onErrorCalls' = [onErrorCalls EXCEPT ![s] = Append(@, err)]
    /\ isStreaming' = FALSE
    /\ abortControllerRef' = 0

Catch(s, err) ==
    /\ IF IsAbortError(err)
       THEN /\ pc' = [pc EXCEPT ![s] = "cancelled"]
            /\ UNCHANGED <<connectionState, error, onErrorCalls>>
       ELSE /\ pc' = [pc EXCEPT ![s] = "failed"]
            /\ connectionState' = "error"
            /\ error' = IF host = "useA2AAgent" THEN err ELSE error
            /\ onErrorCalls' = [onErrorCalls EXCEPT ![s] = Append(@, err)]
    /\ isStreaming' = FALSE
    /\ abortControllerRef' = 0

\* the loop's end: setConnectionState('connected'), onResponse (with the
\* state of the translator the ref holds) / onConnect, then the finally block
Complete(s) ==
    /\ pc' = [pc EXCEPT ![s] = "done"]
    /\ uses' = [uses EXCEPT ![s] = IF host = "A2AChat" THEN @ \cup {translatorRef} ELSE @]
    /\ connectionState' = "connected"
    /\ onResponseCalls' = [onResponseCalls EXCEPT ![s] = @ + 1]
    /\ isStreaming' = FALSE
    /\ abortControllerRef' = 0
    /\ UNCHANGED <<error, onErrorCalls>>

\* the order of `for (const line of lines)`: the index of the line taken next
PickLine_Last(ls) == Len(ls)

PickLine(ls) == 1

\* The synchronous run of the line loop from the lines ls (each [no, toks])
\* to the next addMessageChunk call or to the end of the lines: the lines
\* left, the carbonChunks of the line reached (<<>> at the end), that line's
\* number, whether a line on the way was handed to the translator, the form
\* request set on the way (the last one) and the one of the line reached.
RECURSIVE RunLines(_)
runLine(line, rest, chunks) ==
    IF chunks # <<>>
    THEN [lines |-> rest, chunks |-> chunks, no |-> line.no, translated |-> TRUE,
          form |-> <<>>, qform |-> LineForm(line.toks)]
    ELSE [RunLines(rest) EXCEPT !.translated = @ \/ LineResult(line.toks) # <<>>,
                                !.form = IF @ # <<>> THEN @ ELSE LineForm(line.toks)]

runFrom(ls, k) ==
    runLine(ls[k], SubSeq(ls, 1, k - 1) \o SubSeq(ls, k + 1, Len(ls)), LineChunks(ls[k].toks))

RunLines(ls) ==
    IF ls = <<>> THEN [lines |-> <<>>, chunks |-> <<>>, no |-> 0, translated |-> FALSE,
                       form |-> <<>>, qform |-> <<>>]
    ELSE runFrom(ls, PickLine(ls))

\* stream s goes on after the run of the line loop: in A2AChat to the next
\* addMessageChunk call (the chunk is handed to the renderer, the call awaited)
\* or back to reader.read(); the hook's loop body awaits nothing
\* setCurrentFormRequest(formRequest); setPendingTaskId(data.result.taskId)
showForm(request) ==
    IF host = "A2AChat" /\ request # <<>>
    THEN /\ currentFormRequest' = Head(request).form
         /\ pendingTaskId' = Head(request).taskId
    ELSE UNCHANGED <<currentFormRequest, pendingTaskId>>

\* prior is the form request of the line whose last chunk was just handed over
ContinueWith(s, run, prior) ==
    /\ showForm(IF run.form # <<>> THEN run.form ELSE prior)
    /\ IF host = "A2AChat" /\ run.chunks # <<>>
       THEN /\ pc' = [pc EXCEPT ![s] = "add"]
            /\ lines' = [lines EXCEPT ![s] = run.lines]
            /\ queue' = [queue EXCEPT ![s] = [no |-> run.no, k |-> 1, by |-> translatorRef,
                                              chunks |-> Tail(run.chunks), form |-> run.qform]]
            /\ delivered' = [delivered EXCEPT ![s] =
                  Append(@, [no |-> run.no, k |-> 1, msg |-> Head(run.chunks),
                             by |-> translatorRef, late |-> aborted[s]])]
            /\ uses' = [uses EXCEPT ![s] = @ \cup {translatorRef}]
       ELSE /\ pc' = [pc EXCEPT ![s] = "read"]
            /\ lines' = [lines EXCEPT ![s] = <<>>]
            /\ queue' = [queue EXCEPT ![s] = [no |-> 0, k |-> 0, by |-> 0, chunks |-> <<>>, form |-> <<>>]]
            /\ uses' = [uses EXCEPT ![s] =
                  IF host = "A2AChat" /\ run.translated THEN @ \cup {translatorRef} ELSE @]
            /\ UNCHANGED delivered

Continue(s, ls, prior) == ContinueWith(s, RunLines(ls), prior)

\* the hook's line loop: every line with a result sets taskId and contextId
\* and calls onMessage
RECURSIVE withResult(_)
withResult(ls) ==
    IF ls = <<>> THEN <<>>
    ELSE (IF LineResult(Head(ls).toks) # <<>> THEN <<Head(ls)>> ELSE <<>>) \o withResult(Tail(ls))

onMessages(s, rs) ==
    IF host = "useA2AAgent" /\ rs # <<>>
    THEN /\ taskId' = Head(LineResult(rs[Len(rs)].toks)).taskId
         /\ contextId' = Head(LineResult(rs[Len(rs)].toks)).contextId
         /\ onMessageCalls' = [onMessageCalls EXCEPT ![s] = @ \o [i \in 1..Len(rs) |-> rs[i].no]]
    ELSE UNCHANGED <<taskId, contextId, onMessageCalls>>

\* how fetch() can settle
FetchOutcomes == {"AbortError", "ok", "network error", "Request failed", "Response body is null"}

\* fetch() settles: rejected by the abort signal or the network, or resolved
\* with a bad status, without a body, or with a body to read
FetchSettle(s, outcome) ==
    /\ pc[s] = "fetch"
    /\ IF aborted[s]
       THEN /\ outcome = "AbortError"
            /\ Catch(s, "AbortError")
            /\ UNCHANGED <<failure, stvars>>
       ELSE \/ /\ outcome = "ok"
               /\ pc' = [pc EXCEPT ![s] = "read"]
               /\ UNCHANGED <<connectionState, isStreaming, error, abortControllerRef,
                              onErrorCalls, failure, stvars>>
            \/ /\ outcome \in {"network error", "Request failed", "Response body is null"}
               /\ failure' = [failure EXCEPT ![s] = outcome]
               /\ Catch(s, outcome)
               /\ UNCHANGED stvars
    /\ UNCHANGED <<host, agent, instanceRef, translatorRef, onResponseCalls,
                   hkvars, sinceDisconnect, formvars, message>>

\* reader.read() resolves with the next piece of the body: split is
\* buffer.split('\n') after the piece is appended
takeLines(s, split) ==
    /\ readPos' = [readPos EXCEPT ![s] = @ + 1]
    /\ buffer' = [buffer EXCEPT ![s] = remainder(split)]
    /\ lineNo' = [lineNo EXCEPT ![s] = @ + Len(split) - 1]
    /\ Continue(s, [i \in 1..(Len(split) - 1) |-> [no |-> lineNo[s] + i, toks |-> split[i]]], <<>>)
    /\ onMessages(s, withResult([i \in 1..(Len(split) - 1) |-> [no |-> lineNo[s] + i, toks |-> split[i]]]))

ReadChunk(s) ==
    /\ pc[s] = "read" /\ bstate[s] = "readable" /\ readPos[s] < Len(body[s])
    /\ takeLines(s, Split(buffer[s] \o body[s][readPos[s] + 1]))
    /\ UNCHANGED <<host, agent, instanceRef, connectionState, isStreaming, error,
                   abortControllerRef, translatorRef, body, bstate, aborted,
                   failure, onErrorCalls, onResponseCalls,
                   autoConnect, sinceDisconnect, submitted, message>>

\* reader.read() resolves with done: the agent has ended the body
ReadDone(s) ==
    /\ pc[s] = "read"
    /\ \/ bstate[s] = "readable" /\ readPos[s] = Len(body[s])
       \/ bstate[s] = "closed"
    /\ Complete(s)
    /\ UNCHANGED <<host, agent, instanceRef, translatorRef, failure, body, bstate, aborted,
                   readPos, buffer, lines, queue, lineNo, delivered,
                   hkvars, sinceDisconnect, formvars, message>>

\* reader.read() rejects: with the AbortError of an aborted body, or with a
\* network error
ReadFail(s) ==
    /\ pc[s] = "read"
    /\ \/ /\ bstate[s] = "aborted"
          /\ Catch(s, "AbortError")
          /\ UNCHANGED failure
       \/ /\ bstate[s] \in {"readable", "failed"}
          /\ failure' = [failure EXCEPT ![s] = "network error"]
          /\ Catch(s, "network error")
    /\ UNCHANGED <<host, agent, instanceRef, translatorRef, onResponseCalls, stvars,
                   hkvars, sinceDisconnect, formvars, message>>

\* addMessageChunk() settles: resolved, the for loop hands over the line's
\* next chunk or goes on to the next line; rejected, the inner catch skips
\* the rest of the line
AddSettle(s, resolved) ==
    /\ pc[s] = "add"
    /\ IF resolved /\ queue[s].chunks # <<>>
       THEN /\ queue' = [queue EXCEPT ![s] = [@ EXCEPT !.k = @ + 1, !.chunks = Tail(@)]]
            /\ delivered' = [delivered EXCEPT ![s] =
                  Append(@, [no |-> queue[s].no, k |-> queue[s].k + 1, msg |-> Head(queue[s].chunks),
                             by |-> queue[s].by, late |-> aborted[s]])]
            /\ UNCHANGED <<pc, lines, uses, currentFormRequest, pendingTaskId>>
       ELSE Continue(s, lines[s], IF resolved THEN queue[s].form ELSE <<>>)
    /\ UNCHANGED <<host, agent, instanceRef, connectionState, isStreaming, error,
                   abortControllerRef, translatorRef, body, bstate, aborted, readPos, buffer,
                   lineNo, failure, onErrorCalls, onResponseCalls,
                   hkvars, sinceDisconnect, submitted, message>>

\* while the handler awaits addMessageChunk the body goes on without it: the
\* agent ends it, or the connection fails
BodyCloses(s) ==
    /\ pc[s] = "add" /\ bstate[s] = "readable" /\ readPos[s] = Len(body[s])
    /\ bstate' = [bstate EXCEPT ![s] = "closed"]
    /\ UNCHANGED <<host, agent, instanceRef, connectionState, isStreaming, error,
                   abortControllerRef, translatorRef, pc, body, aborted, readPos, buffer, lines,
                   queue, lineNo, delivered, uses, failure, onErrorCalls, onResponseCalls,
                   hkvars, sinceDisconnect, formvars, message>>

BodyFails(s) ==
    /\ pc[s] = "add" /\ bstate[s] = "readable"
    /\ bstate' = [bstate EXCEPT ![s] = "failed"]
    /\ UNCHANGED <<host, agent, instanceRef, connectionState, isStreaming, error,
                   abortControllerRef, translatorRef, pc, body, aborted, readPos, buffer, lines,
                   queue, lineNo, delivered, uses, failure, onErrorCalls, onResponseCalls,
                   hkvars, sinceDisconnect, formvars, message>>

\* abortControllerRef.current?.abort(): the abort rejects a pending fetch
\* and errors a body that is still readable
abortCurrent ==
    IF abortControllerRef # 0
    THEN /\ aborted' = [aborted EXCEPT ![abortControllerRef] = TRUE]
         /\ bstate' = [bstate EXCEPT ![abortControllerRef] =
                          IF @ = "readable" THEN "aborted" ELSE @]
    ELSE UNCHANGED <<aborted, bstate>>

\* handleCancel / cancelStream: abort the controller the ref holds.
Cancel ==
    /\ host \in {"A2AChat", "useA2AAgent"}
    /\ abortCurrent
    /\ isStreaming' = FALSE
    /\ connectionState' = "connected"
    /\ UNCHANGED <<host, agent, instanceRef, error, abortControllerRef, translatorRef, pc, body,
                   readPos, buffer, lines, queue, lineNo, delivered, uses, failure,
                   onErrorCalls, onResponseCalls, hkvars, sinceDisconnect, formvars, message>>

\* disconnect(): cancelStream(), then the state is 'disconnected' and the
\* task and context ids are cleared
Disconnect ==
    /\ host = "useA2AAgent"
    /\ abortCurrent
    /\ isStreaming' = FALSE
    /\ connectionState' = "disconnected"
    /\ taskId' = Undef
    /\ contextId' = Undef
    /\ sinceDisconnect' = TRUE
    /\ UNCHANGED <<host, agent, instanceRef, error, abortControllerRef, translatorRef, pc, body,
                   readPos, buffer, lines, queue, lineNo, delivered, uses, failure,
                   onErrorCalls, onResponseCalls, autoConnect, onMessageCalls, formvars, message>>

\* reconnect(): disconnect(), then 'connecting' and at once 'connected'
Reconnect ==
    /\ host = "useA2AAgent"
    /\ abortCurrent
    /\ isStreaming' = FALSE
    /\ connectionState' = "connected"
    /\ taskId' = Undef
    /\ contextId' = Undef
    /\ sinceDisconnect' = FALSE
    /\ UNCHANGED <<host, agent, instanceRef, error, abortControllerRef, translatorRef, pc, body,
                   readPos, buffer, lines, queue, lineNo, delivered, uses, failure,
                   onErrorCalls, onResponseCalls, autoConnect, onMessageCalls, formvars, message>>

\* clearHistory(): the task and context ids are cleared
ClearHistory ==
    /\ host = "useA2AAgent"
    /\ taskId' = Undef
    /\ contextId' = Undef
    /\ UNCHANGED <<host, agent, instanceRef, connectionState, isStreaming, error,
                   abortControllerRef, translatorRef, pc, stvars, failure, onErrorCalls,
                   onResponseCalls, autoConnect, onMessageCalls, sinceDisconnect, formvars, message>>

\* the auto-connect effect, run after a render in which the state is
\* 'disconnected'
AutoConnect ==
    /\ host = "useA2AAgent"
    /\ autoConnect /\ agent = "configured" /\ connectionState = "disconnected"
    /\ connectionState' = "connected"
    /\ UNCHANGED <<host, agent, instanceRef, isStreaming, error,
                   abortControllerRef, translatorRef, pc, stvars, failure, onErrorCalls,
                   onResponseCalls, hkvars, sinceDisconnect, formvars, message>>

\* handleFormSubmit(values), called from the form the overlay shows: without
\* a pending task id it returns; else it clears the form state and sends
\* the form response through handleSendMessage, as stream s with body b
FormSubmit(s, b, values) ==
    /\ host = "A2AChat" /\ currentFormRequest # "null"
    /\ submitted < MaxSends
    /\ submitted' = submitted + 1
    /\ IF ~Truthy(pendingTaskId)
       THEN UNCHANGED <<host, agent, instanceRef, connectionState, isStreaming, error,
                        abortControllerRef, translatorRef, pc, stvars, failure, onErrorCalls,
                        onResponseCalls, hkvars, sinceDisconnect, currentFormRequest,
                        pendingTaskId, message>>
       ELSE /\ currentFormRequest' = "null"
            /\ pendingTaskId' = "null"
            /\ SendMessage(s, b, FormResponse(pendingTaskId, values))

\* handleFormCancel()
FormCancel ==
    /\ host = "A2AChat" /\ currentFormRequest # "null"
    /\ currentFormRequest' = "null"
    /\ pendingTaskId' = "null"
    /\ UNCHANGED <<host, agent, instanceRef, connectionState, isStreaming, error,
                   abortControllerRef, translatorRef, pc, stvars, failure, onErrorCalls,
                   onResponseCalls, hkvars, sinceDisconnect, submitted, message>>

Init == InitChat /\ TranslatorOff /\ AgentsOff

Next ==
    \/ HandleAfterRender /\ UNCHANGED <<tvars, avars>>
    \/ SendNoAgent /\ UNCHANGED <<tvars, avars>>
    \/ \E s \in Streams : \E b \in SampleBodies : Send(s, b) /\ UNCHANGED <<tvars, avars>>
    \/ \E s \in Streams : \E o \in FetchOutcomes : FetchSettle(s, o) /\ UNCHANGED <<tvars, avars>>
    \/ \E s \in Streams : ReadChunk(s) /\ UNCHANGED <<tvars, avars>>
    \/ \E s \in Streams : ReadDone(s) /\ UNCHANGED <<tvars, avars>>
    \/ \E s \in Streams : ReadFail(s) /\ UNCHANGED <<tvars, avars>>
    \/ \E s \in Streams : \E r \in BOOLEAN : AddSettle(s, r) /\ UNCHANGED <<tvars, avars>>
    \/ \E s \in Streams : BodyCloses(s) /\ UNCHANGED <<tvars, avars>>
    \/ \E s \in Streams : BodyFails(s) /\ UNCHANGED <<tvars, avars>>
    \/ Cancel /\ UNCHANGED <<tvars, avars>>
    \/ Disconnect /\ UNCHANGED <<tvars, avars>>
    \/ Reconnect /\ UNCHANGED <<tvars, avars>>
    \/ ClearHistory /\ UNCHANGED <<tvars, avars>>
    \/ AutoConnect /\ UNCHANGED <<tvars, avars>>
    \/ \E s \in Streams : \E b \in SampleBodies : \E v \in FormValues :
          FormSubmit(s, b, v) /\ UNCHANGED <<tvars, avars>>
    \/ FormCancel /\ UNCHANGED <<tvars, avars>>

Spec == Init /\ [][Next]_vars

\* the translator on its own, the chat session unused
InitT == InitTranslator /\ ChatOff /\ AgentsOff

NextT ==
    \/ TranslateTrajectory /\ UNCHANGED <<cvars, avars>>
    \/ TranslateTask /\ UNCHANGED <<cvars, avars>>
    \/ FeedChunk /\ UNCHANGED <<cvars, avars>>
    \/ TranslatePart /\ UNCHANGED <<cvars, avars>>
    \/ CallFactory /\ UNCHANGED <<cvars, avars>>
    \/ Extract /\ UNCHANGED <<cvars, avars>>
    \/ ReadPiece /\ UNCHANGED <<cvars, avars>>

SpecTranslator == InitT /\ [][NextT]_vars

InitA == InitAgents /\ ChatOff /\ TranslatorOff

NextA ==
    \/ \E id \in AgentIds : SwitchAgent(id) /\ UNCHANGED <<cvars, tvars>>
    \/ \E id \in AgentIds : \E name \in AgentNames : RegisterAgent(AgentConfig(id, name)) /\ UNCHANGED <<cvars, tvars>>
    \/ \E id \in AgentIds : UnregisterAgent(id) /\ UNCHANGED <<cvars, tvars>>
    \/ \E id \in AgentIds : \E name \in AgentNames : UpdateAgent(id, name) /\ UNCHANGED <<cvars, tvars>>

SpecAgents == InitA /\ [][NextA]_vars

\* ------------------------------------------------------ translator properties
\* the content kind a translated message shows
OutKind(out) ==
    IF out = <<>> THEN "none"
    ELSE LET m == Head(out)
         IN  CASE m.response_type = "chain_of_thought" ->
                    IF m.chain_of_thought.steps[1].status = ChainOfThoughtStepStatus.PROCESSING
                    THEN "tool_call" ELSE "tool_result"
               [] m.response_type = "reasoning_steps" -> "thinking"
               [] m.response_type = "user_defined" /\ m.user_defined.type = "status_message" -> "status"
               [] OTHER -> "other"

TrajectoryDone == tmode = "trajectory" /\ tfed = 1

TaskDone == tmode = "task" /\ tfed = 1

\* a chunk whose trajectory is a tool call in processing / a tool result in success
IsCallChunk(c) == OutKind(translateStreamingPart(c.part, c.metadata)) = "tool_call"

IsSuccessChunk(c) ==
    LET out == translateStreamingPart(c.part, c.metadata)
    IN  /\ OutKind(out) = "tool_result"
        /\ Head(out).chain_of_thought.steps[1].status = ChainOfThoughtStepStatus.SUCCESS

ChunkGroup(c) == Head(c.metadata)[TRAJECTORY_URI].val.group_id

\* two chunks with one group_id, a processing tool call then its success result, were fed
CallThenResultFed ==
    /\ tmode = "stream" /\ Len(tin) = 2 /\ tfed = 2
    /\ tin[1].metadata # <<>> /\ tin[2].metadata # <<>>
    /\ ChunkGroup(tin[1]) = ChunkGroup(tin[2])
    /\ IsCallChunk(tin[1]) /\ IsSuccessChunk(tin[2])

\* the steps a renderer shows for a message list: every chain_of_thought
\* message is an item of its own, with the steps it carries
VisibleSteps(messages) ==
    Concat([i \in 1..Len(messages) |->
              IF messages[i].response_type = "chain_of_thought"
              THEN messages[i].chain_of_thought.steps ELSE <<>>])

\* C7: feeding two chunks with the same group_id, a tool call in processing
\* and then its result in success, yields one item, opened and then finalized:
\* one visible step, in status success at the end, never two distinct steps.
C7_OneStepPerKey ==
    CallThenResultFed =>
        /\ Len(VisibleSteps(tout)) = 1
        /\ VisibleSteps(tout)[1].status = ChainOfThoughtStepStatus.SUCCESS

\* what translateTask must return for one artifact: its trajectory message
\* first (if it has one), then its parts' messages in the parts' order
ArtifactBlock(artifact) ==
    LET tr == extractTrajectoryFromMetadata(artifact.metadata)
    IN  (IF tr = <<>> THEN <<>> ELSE translateTrajectory(Head(tr)))
        \o Concat([i \in 1..Len(artifact.parts) |-> translatePart(artifact.parts[i], Some(artifact))])

\* C8: translateTask emits the artifacts' messages in list order, and within
\* an artifact the trajectory-metadata message before the parts' messages,
\* which follow the parts' order.
C8_TaskOrder ==
    (TaskDone /\ ~tout.threw) =>
        tout.messages = Concat([a \in 1..Len(tin.artifacts) |-> ArtifactBlock(tin.artifacts[a])])

\* C8 witness: the two-artifact task of the spec's example gives
\* [trajectory message, text message, image message].
C8_Witness ==
    /\ TaskDone
    /\ Len(tin.artifacts) = 2
    /\ tin.artifacts[1].metadata = TrajectoryMeta(Traj(<<"Calling", "search_web">>, <<>>, "g1", Undef))
    /\ tin.artifacts[1].parts = <<TextPart(<<"hello">>)>>
    /\ tin.artifacts[2].parts = <<FilePart("photo.png", "image/png")>>
    /\ Len(tout.messages) = 3
    /\ OutKind(<<tout.messages[1]>>) = "tool_call"
    /\ tout.messages[2].response_type = "text" /\ tout.messages[2].text = <<"hello">>
    /\ tout.messages[3].response_type = "image"

\* C9: the kind of a translated trajectory follows strict precedence: a
\* recognized explicit content_type, else the title's inference, else the
\* embedded JSON's type, else the keyword fallback.
C9_Precedence ==
    TrajectoryDone =>
        LET explicit == tin.content_type
            inferred == inferContentTypeFromTitle(tin.title)
            json == parseEmbeddedJson(tin.content)
        IN  /\ (explicit \in RecognizedTypes /\ (tin.title # <<>> \/ tin.content # <<>>))
                  => OutKind(tout) = explicit
            /\ (~Truthy(explicit) /\ inferred # "null")
                  => OutKind(tout) = inferred
            /\ (~Truthy(explicit) /\ inferred = "null" /\ json # <<>>)
                  => OutKind(tout) = Head(json).type
            /\ (~Truthy(explicit) /\ inferred = "null" /\ json = <<>> /\ tin.content # <<>>
                /\ parseKeywords(tin.content).type # "text")
                  => OutKind(tout) = parseKeywords(tin.content).type

\* C9 witness: explicit tool_result over an embedded tool_call JSON and a
\* title that reads as a call is translated as a tool result.
C9_Witness ==
    /\ TrajectoryDone
    /\ tin.content_type = "tool_result"
    /\ tin.content = <<Fence("J_CALL")>>
    /\ inferContentTypeFromTitle(tin.title) = "tool_call"
    /\ OutKind(tout) = "tool_result"

\* C10: a content_type that is present but not recognized does not decide the
\* kind: the trajectory is translated as it is without a content_type.
C10_UnrecognizedIgnored ==
    (TrajectoryDone /\ Truthy(tin.content_type) /\ tin.content_type \notin RecognizedTypes) =>
        OutKind(tout) = OutKind(translateTrajectory([tin EXCEPT !.content_type = Undef]))

\* ------------------------------------------------------ tool step properties
\* the run translated a trajectory as a tool result / as a tool call
ToolResultDone == TrajectoryDone /\ OutKind(tout) = "tool_result"

ToolCallDone == TrajectoryDone /\ OutKind(tout) = "tool_call"

StepOf(out) == Head(out).chain_of_thought.steps[1]

ParsedStatusIsError == parseTrajectoryContent(tin.content).status = "error"

ContentHasError == \E i \in 1..Len(ContentWords(tin.content)) : Lower(ContentWords(tin.content)[i]) = "error"

\* C13 as stated: a tool-result step has status error exactly when the parsed
\* status is 'error', or the content contains 'error' in any letter case, or
\* the title contains 'failed' as spelled; otherwise its status is success.
C13_ErrorSignals ==
    ToolResultDone =>
        /\ StepOf(tout).status \in {ChainOfThoughtStepStatus.ERROR, ChainOfThoughtStepStatus.SUCCESS}
        /\ StepOf(tout).status = ChainOfThoughtStepStatus.ERROR
              <=> (ParsedStatusIsError \/ ContentHasError
                   \/ \E i \in 1..Len(tin.title) : tin.title[i] = "failed")

\* C13, amended: a tool-result step has status error exactly when the parsed
\* status is 'error', or the content contains 'error' in any letter case, or
\* the title contains 'failed' in any letter case; otherwise success.
C13_ErrorSignalsAnyCase ==
    ToolResultDone =>
        /\ StepOf(tout).status \in {ChainOfThoughtStepStatus.ERROR, ChainOfThoughtStepStatus.SUCCESS}
        /\ StepOf(tout).status = ChainOfThoughtStepStatus.ERROR
              <=> (ParsedStatusIsError \/ ContentHasError
                   \/ \E i \in 1..Len(tin.title) : Lower(tin.title[i]) = "failed")

\* C13 witness: title 'search_web Result', no content_type, content holding
\* 'Error' and no embedded JSON: a tool-result step in error
C13_Witness ==
    /\ ToolResultDone
    /\ tin.title = <<"search_web", "Result">> /\ tin.content = <<Word("Error")>>
    /\ tin.content_type = Undef
    /\ StepOf(tout).status = ChainOfThoughtStepStatus.ERROR
    /\ StepOf(tout).tool_name = "search_web"

\* the word that follows the first 'Calling' or 'Tool Call:' of the title, if
\* a word follows it
NameInTitle(title) ==
    LET named(i) == \/ Lower(title[i]) = "calling" /\ i + 1 <= Len(title)
                    \/ Lower(title[i]) = "tool" /\ i + 2 <= Len(title) /\ Lower(title[i + 1]) = "call:"
        first == CHOOSE i \in 1..Len(title) : named(i) /\ \A k \in 1..(i - 1) : ~named(k)
    IN  IF \E i \in 1..Len(title) : named(i)
        THEN (IF Lower(title[first]) = "calling" THEN title[first + 1] ELSE title[first + 2])
        ELSE Undef

\* C14: a tool-call step is in processing and its tool name is the name in
\* the embedded JSON if there is one, else the name that follows 'Calling' or
\* 'Tool Call:' in the title, else the literal 'tool'.
C14_ToolNamePriority ==
    ToolCallDone =>
        /\ StepOf(tout).status = ChainOfThoughtStepStatus.PROCESSING
        /\ StepOf(tout).tool_name =
              Or(parseTrajectoryContent(tin.content).toolName, Or(NameInTitle(tin.title), "tool"))

\* ------------------------------------------------------------ part properties
PartDone == tmode = "part" /\ tfed = 1

\* the messages a finished run returned (a thrown TypeError returns none)
Produced ==
    IF tfed = 0 THEN <<>>
    ELSE IF tmode = "task" THEN tout.messages
    ELSE IF tmode \in {"extract", "reads"} THEN <<>>
    ELSE SelectSeq(tout, LAMBDA m : m # Thrown)

\* C11: a part of kind text, whatever its metadata, is translated to exactly
\* one message, of response type text, whose text is the part's text.
C11_TextPartGivesText ==
    (PartDone /\ tin.part.kind = "text") =>
        /\ Len(tout) = 1
        /\ tout[1].response_type = "text"
        /\ "text" \in DOMAIN tout[1] /\ tout[1].text = tin.part.text

PayloadFields == {"text", "reasoning_steps", "chain_of_thought", "user_defined"}

Reading(s) == pc[s] \in {"read", "add"}

\* C1: at most one response stream is active: while a later send's stream is
\* reading, every earlier stream has ended or has had its abort signal fired.
C1_OneActiveStream ==
    \A s, r \in Streams : (s < r /\ Reading(r) /\ InFlight(s)) => aborted[s]

\* C2: a stream calls only the translator created for it (so no translator
\* is called by two streams).
C2_TranslatorOwned == \A s \in Streams : uses[s] \subseteq {s}

\* the abort signal of stream s fired while its request was pending or its
\* body still readable
CancelTookEffect(s) == aborted[s] /\ bstate[s] = "aborted"

\* C3: a stream whose request was aborted by handleCancel / cancelStream
\* gets no onError call and does not end in the error branch; unless another
\* stream failed, the connection state is not 'error' and the hook's error
\* is unset.
C3_CancelIsNoError ==
    \A s \in Streams : CancelTookEffect(s) =>
        /\ onErrorCalls[s] = <<>>
        /\ pc[s] # "failed"
        /\ (\A r \in Streams : pc[r] # "failed") => (connectionState # "error" /\ error = "null")

C3_Witness ==
    \E s \in Streams : CancelTookEffect(s) /\ pc[s] = "cancelled" /\ delivered[s] # <<>>

\* C4: the step in which a send's transport failure (network error, bad
\* status, missing body) is thrown sets the connection state to 'error',
\* calls onError with the failure and sets isStreaming to false; and onError
\* has been called exactly once, with that failure, ever after.
C4_FailureSurfaced ==
    /\ [](\A s \in Streams : failure[s] # "none" =>
             pc[s] = "failed" /\ onErrorCalls[s] = <<failure[s]>>)
    /\ [][\A s \in Streams : (failure[s] = "none" /\ failure'[s] # "none") =>
             /\ connectionState' = "error"
             /\ isStreaming' = FALSE
             /\ onErrorCalls'[s] = <<failure'[s]>>]_vars

C4_Witness ==
    \E s \in Streams : failure[s] = "Request failed" /\ onErrorCalls[s] = <<"Request failed">>
                       /\ connectionState = "error" /\ ~isStreaming

\* C5: nothing of a cancelled stream is flushed: no chunk is handed to
\* addMessageChunk once the stream's abort signal has fired, and onResponse
\* is not called for it.
C5_NothingAfterCancel ==
    \A s \in Streams :
        /\ \A i \in 1..Len(delivered[s]) : ~delivered[s][i].late
        /\ aborted[s] => onResponseCalls[s] = 0

\* C6: within one stream the chunks reach the renderer in the order the
\* lines were consumed, and within a line in the order of its carbonChunks.
C6_DeliveredInOrder ==
    \A s \in Streams : \A i, j \in 1..Len(delivered[s]) :
        i < j => \/ delivered[s][i].no < delivered[s][j].no
                 \/ delivered[s][i].no = delivered[s][j].no /\ delivered[s][i].k < delivered[s][j].k

C6_Witness ==
    \E s \in Streams :
        /\ Len(delivered[s]) >= 3
        /\ delivered[s][1].no = delivered[s][2].no
        /\ delivered[s][2].no < delivered[s][3].no

\* ------------------------------------------------------- file part properties
\* a file part that has its file, with a MIME type, and no metadata of its own
FilePartDone ==
    /\ PartDone /\ tin.part.kind = "file" /\ tin.part.file # <<>> /\ tin.part.metadata = <<>>
    /\ Head(tin.part.file).mimeType # Undef

\* the kind of message a file part was translated to
FileKind(m) == IF m.response_type = "image" THEN "image" ELSE m.user_defined.type

\* C15: a file part gives an image message when its MIME type starts with
\* 'image/'; otherwise a chart message when its name contains 'chart' or
\* 'graph' as spelled; otherwise a file_attachment message.
C15_FileDispatch ==
    FilePartDone =>
        /\ Len(tout) = 1
        /\ FileKind(tout[1]) =
              (IF Head(tin.part.file).mimeType = "image/png" THEN "image"
               ELSE IF Head(tin.part.file).name \in {"sales_chart.pdf", "flowgraph.png"} THEN "chart"
               ELSE "file_attachment")

\* C15 witness: an image whose name contains 'chart' is an image message,
\* with the file's name as alt text
C15_Witness ==
    /\ FilePartDone
    /\ Head(tin.part.file).name = "sales_chart.pdf" /\ Head(tin.part.file).mimeType = "image/png"
    /\ Len(tout) = 1 /\ tout[1].response_type = "image" /\ tout[1].user_defined.alt = "sales_chart.pdf"

\* ------------------------------------------------------- data part properties
\* a data part that has its data and no metadata of its own
DataPartDone == PartDone /\ tin.part.kind = "data" /\ tin.part.data # <<>> /\ tin.part.metadata = <<>>

\* the data is a non-empty array whose first element is an object
IsTable(data) == data.shape = "array" /\ Len(data.rows) > 0 /\ data.rows[1].shape = "object"

\* C16: a data part whose data is a non-empty array with an object first is
\* translated to one data_table message; its columns are the keys of the
\* first element and its rows are the input array.
C16_TableColumns ==
    (DataPartDone /\ IsTable(Head(tin.part.data))) =>
        /\ Len(tout) = 1
        /\ tout[1].response_type = "user_defined" /\ tout[1].user_defined.type = "data_table"
        /\ tout[1].user_defined.columns = Head(tin.part.data).rows[1].keys
        /\ tout[1].user_defined.rows = Head(tin.part.data).rows

\* C16 witness: [{a, b}, {a, c}] gives columns [a, b]
C16_Witness ==
    /\ DataPartDone
    /\ Head(tin.part.data) = [shape |-> "array", rows |-> <<Row(<<"a", "b">>), Row(<<"a", "c">>)>>]
    /\ Len(tout) = 1 /\ tout[1].user_defined.type = "data_table"
    /\ tout[1].user_defined.columns = <<"a", "b">>

\* C17: a data part whose data is present, is not a table, and is not a
\* tool call or a tool result, is translated to exactly one structured_data
\* message that carries the data as it came.
C17_StructuredData ==
    (/\ DataPartDone
     /\ ~IsTable(Head(tin.part.data))
     /\ ~(Head(tin.part.data).shape = "object" /\ Head(tin.part.data).type \in {"tool_call", "tool_result"})) =>
        /\ Len(tout) = 1 /\ tout[1] # Thrown
        /\ tout[1].response_type = "user_defined" /\ tout[1].user_defined.type = "structured_data"
        /\ tout[1].user_defined.data = Head(tin.part.data)

\* ---------------------------------------------------------- status properties
\* the trajectory of a finished trajectory run resolves to status
StatusTrajectoryDone ==
    /\ TrajectoryDone /\ (tin.title # <<>> \/ tin.content # <<>>)
    /\ resolveContentType(tin.content_type, inferContentTypeFromTitle(tin.title),
                          parseTrajectoryContent(tin.content).type) = CONTENT_TYPES.STATUS

\* the part of a finished part run is tagged content_type 'status'
StatusPartDone ==
    /\ PartDone /\ tin.part.metadata # <<>>
    /\ "content_type" \in DOMAIN Head(tin.part.metadata)
    /\ Head(tin.part.metadata).content_type = CONTENT_TYPES.STATUS

\* C18: a fragment classified as status gives one user_defined status
\* notice, never a chain_of_thought step: from a trajectory it carries the
\* trajectory's text (the title, or the content when there is no title) and
\* its group_id; from a part tagged 'status' it carries the part's text and
\* the part's metadata, group_id included.
C18_StatusNotice ==
    /\ StatusTrajectoryDone =>
          /\ Len(tout) = 1
          /\ tout[1].response_type = "user_defined" /\ "chain_of_thought" \notin DOMAIN tout[1]
          /\ tout[1].user_defined.type = "status_message"
          /\ tout[1].user_defined.message =
                (IF tin.title # <<>> THEN [i \in 1..Len(tin.title) |-> Word(tin.title[i])] ELSE tin.content)
          /\ tout[1].user_defined.metadata.group_id = tin.group_id
    /\ StatusPartDone =>
          /\ Len(tout) = 1
          /\ tout[1].response_type = "user_defined" /\ "chain_of_thought" \notin DOMAIN tout[1]
          /\ tout[1].user_defined.type = "status_message"
          /\ tout[1].user_defined.message = tin.part.text
          /\ tout[1].user_defined.metadata.group_id = Head(tin.part.metadata).group_id

\* C18 witness: a trajectory tagged status whose title reads as a tool call
\* is a status notice with the trajectory's group
C18_Witness ==
    /\ StatusTrajectoryDone
    /\ tin.content_type = "status" /\ tin.title = <<"Calling", "search_web">>
    /\ tout[1].user_defined.type = "status_message"
    /\ tout[1].user_defined.metadata.group_id = "g1"

\* --------------------------------------------------------- default properties
\* the trajectory of a finished trajectory run matches no rule: no recognized
\* content_type, a title that infers nothing, no tool JSON and no keyword
UnclassifiedDone ==
    /\ TrajectoryDone
    /\ tin.content_type \notin RecognizedTypes
    /\ inferContentTypeFromTitle(tin.title) = "null"
    /\ parseTrajectoryContent(tin.content).type = "text"

\* a task whose artifacts carry a trajectory without title and content, and
\* no parts
EmptyTrajectoriesDone ==
    /\ TaskDone /\ Len(tin.artifacts) > 0
    /\ \A a \in 1..Len(tin.artifacts) :
          /\ tin.artifacts[a].metadata = TrajectoryMeta(NoTrajectory)
          /\ tin.artifacts[a].parts = <<>>

\* C19: a trajectory that matches no rule is translated to one reasoning
\* message if it has content and to no message otherwise; translateTask makes
\* no message of a trajectory without title and content, and does not throw.
C19_DefaultClassification ==
    /\ UnclassifiedDone =>
          IF tin.content # <<>>
          THEN Len(tout) = 1 /\ tout[1].response_type = "reasoning_steps"
          ELSE tout = <<>>
    /\ EmptyTrajectoriesDone => (tout.messages = <<>> /\ ~tout.threw)

\* C19 witness: a title that infers nothing over plain content is reasoning
C19_Witness ==
    /\ UnclassifiedDone
    /\ tin.title = <<"search_web">> /\ tin.content = <<Word("hello")>>
    /\ Len(tout) = 1 /\ tout[1].response_type = "reasoning_steps"

\* ------------------------------------------------------ robustness properties
\* C20: translating a part, a chunk or a task never raises: whatever the
\* fragment, the caller gets messages or none, and no error.
C20_NeverRaises ==
    tfed > 0 =>
        IF tmode = "task" THEN ~tout.threw
        ELSE tmode \in {"extract", "reads"} \/ \A i \in 1..Len(tout) : tout[i] # Thrown

\* ------------------------------------------------------- extractor properties
ExtractDone == tmode = "extract" /\ tfed = 1

\* the metadata holds, under both extension keys, the object o in some shape
HoldsShaped(o) ==
    /\ tin # <<>> /\ CITATION_URI \in DOMAIN Head(tin)
    /\ \E sh \in Shapes : Head(tin)[CITATION_URI] = Shaped(o, sh)
    /\ \E sh \in Shapes : Head(tin)[TRAJECTORY_URI] = Shaped(o, sh)

\* C21: an extension value given as the object o, as the array [o] or as a
\* wrapper holding [o] is extracted alike: extractCitations returns [o] and
\* the trajectory extractor returns o; undefined metadata and metadata
\* without the key give the empty result.
C21_ShapesNormalized ==
    ExtractDone =>
        /\ \A o \in ExtObjects :
              HoldsShaped(o) => (tout.citations = <<o>> /\ tout.trajectory = Some(o))
        /\ (tin = <<>> \/ CITATION_URI \notin DOMAIN Head(tin)) =>
              (tout.citations = <<>> /\ tout.trajectory = <<>>)

\* ------------------------------------------------------- ambiguity properties
\* the title holds a call phrase ('calling', 'tool call') / a result phrase
HasCallPhrase(title) ==
    \/ \E i \in 1..Len(title) : Lower(title[i]) = "calling"
    \/ \E i \in 1..(Len(title) - 1) : Lower(title[i]) = "tool" /\ Lower(title[i + 1]) = "call:"

HasResultPhrase(title) == \E i \in 1..Len(title) : Lower(title[i]) \in {"result", "completed"}

\* the content holds a call marker / a result marker outside any code block
HasCallMarker(content) ==
    \E i \in 1..Len(content) :
        ~content[i].fence /\ (content[i].tok = "**Arguments:**" \/ Lower(content[i].tok) = "calling")

HasResultMarker(content) ==
    \E i \in 1..Len(content) : ~content[i].fence /\ content[i].tok \in {"**Result:**", "**Status:**"}

\* C23: without a content_type, a title that holds both a call phrase and a
\* result phrase is a tool call; and when the title infers nothing and no
\* embedded JSON parses to a tool call or result, content that holds both a
\* call marker and a result marker is a tool call.
C23_CallBeforeResult ==
    (TrajectoryDone /\ ~Truthy(tin.content_type)) =>
        /\ (HasCallPhrase(tin.title) /\ HasResultPhrase(tin.title)) => OutKind(tout) = "tool_call"
        /\ (/\ ~HasCallPhrase(tin.title) /\ ~HasResultPhrase(tin.title)
            /\ inferContentTypeFromTitle(tin.title) = "null"
            /\ parseEmbeddedJson(tin.content) = <<>>
            /\ HasCallMarker(tin.content) /\ HasResultMarker(tin.content)) => OutKind(tout) = "tool_call"

\* C23 witness: the title 'Calling search_web Result'
C23_Witness ==
    /\ TrajectoryDone /\ tin.content_type = Undef
    /\ tin.title = <<"Calling", "search_web", "Result">>
    /\ OutKind(tout) = "tool_call" /\ StepOf(tout).tool_name = "search_web"

\* --------------------------------------------------------- factory properties
FactoryDone == tmode = "factory" /\ tfed = 1

\* the data part that holds the arguments of a factory call as structured data
EquivalentPart(call) ==
    DataPart([shape |-> "object",
              type |-> IF call.fn = "createToolCallMessage" THEN "tool_call" ELSE "tool_result",
              title |-> Undef, tool_name |-> call.toolName, description |-> call.description,
              args |-> call.args,
              result |-> IF call.fn = "createToolResultMessage" THEN call.result ELSE Undef,
              error |-> IF call.fn = "createToolResultMessage" THEN call.error ELSE Undef])

\* C24: createToolCallMessage and createToolResultMessage build the message
\* the translator makes of the data part that holds the same name, args,
\* result, error and description.
C24_FactoryMatchesTranslator ==
    (FactoryDone /\ tin.fn \in {"createToolCallMessage", "createToolResultMessage"}) =>
        tout = translateStreamingPart(EquivalentPart(tin), <<>>)

\* --------------------------------------------------- shared state properties
\* stream s has started and has neither completed, failed nor been cancelled
Pending(s) == InFlight(s) /\ ~aborted[s]

\* C25: isStreaming is true exactly when some send is still in flight.
C25_StreamingIffInFlight == isStreaming <=> \E s \in Streams : Pending(s)

\* C26: the abort-controller reference holds the controller of the latest
\* send while that send is in flight, so that a cancel aborts it.
C26_LatestCancellable ==
    \A s \in Streams :
        (Pending(s) /\ \A r \in Streams : r > s => pc[r] = "idle") => abortControllerRef = s

\* ---------------------------------------------------- multi-agent properties
\* C30: the step that unregisters the current agent leaves a current agent
\* that is one of the agents that remain, and null only when none remains.
C30_CurrentAmongRemaining ==
    [][(/\ currentAgent # <<>>
        /\ Len(agents') < Len(agents)
        /\ Head(currentAgent).id \notin idsOf(agents'))
       => (IF agents' = <<>> THEN currentAgent' = <<>>
           ELSE currentAgent' # <<>> /\ Head(currentAgent').id \in idsOf(agents'))]_vars

\* ------------------------------------------------------- read loop properties
ReadsDone == tmode = "reads" /\ tfed = Len(tin)

\* the lines of a text that end in a line feed, in order
RECURSIVE Terminated(_, _)
Terminated(toks, cur) ==
    IF toks = <<>> THEN <<>>
    ELSE IF Head(toks) = "\n" THEN <<cur>> \o Terminated(Tail(toks), <<>>)
    ELSE Terminated(Tail(toks), Append(cur, Head(toks)))

\* C28: however the stream text is cut into reads, the read loop processes
\* the newline-terminated 'data: ' lines of the whole text, each once and in
\* stream order.
C28_SplitIndependent ==
    ReadsDone => tout.processed = payloads(Terminated(Concat(tin), <<>>))

\* C28 witness: a text read in three pieces, cut inside a line and between
\* the carriage return and the line feed, with two payloads processed
C28_Witness ==
    /\ ReadsDone /\ Len(tin) = 3
    /\ tin[1] = <<"data: ">> /\ tin[2][Len(tin[2])] = "\r"
    /\ tout.processed = << <<"E_TEXT">>, <<"{bad">>, <<"E_TWO">> >>

\* ------------------------------------------------------- bad line properties
\* the newline-terminated lines of the body of stream s, in order
BodyLines(s) == Terminated(Concat(body[s]), <<>>)

\* the numbers of the lines of stream s that carry a result
ResultLines(s) == {n \in 1..Len(BodyLines(s)) : LineResult(BodyLines(s)[n]) # <<>>}

Throws(line) ==
    /\ LineResult(line) # <<>>
    /\ \E i \in 1..Len(translateStreamChunk(Head(LineResult(line)))) :
          translateStreamChunk(Head(LineResult(line)))[i] = Thrown

\* a line the loop skips: an empty data line, the [DONE] marker, invalid
\* JSON, or a chunk whose translation throws
BadLine(line) ==
    /\ Trim(line) # <<>> /\ Head(Trim(line)) = "data: "
    /\ \/ DataStr(line) = <<>>
       \/ Len(DataStr(line)) = 1 /\ ~EventDoc(DataStr(line)[1]).valid
       \/ host = "A2AChat" /\ Throws(line)

\* C29: a bad stream line never ends the stream.  Only a transport failure
\* puts a stream in the error branch or calls onError; a stream that has
\* finished has processed every line of its body that yields chunks (its
\* first chunk was handed to the renderer; in the hook, onMessage was called
\* for every line with a result, in order), nothing of a line whose
\* translation throws was handed on, and the step that finishes the stream
\* sets the connection state to 'connected'.
C29_BadLineSkipped ==
    /\ [](\A s \in Streams :
             /\ (pc[s] = "failed" \/ onErrorCalls[s] # <<>>) => failure[s] # "none"
             /\ \A i \in 1..Len(delivered[s]) :
                    delivered[s][i].msg # Thrown /\ ~BadLine(BodyLines(s)[delivered[s][i].no])
             /\ pc[s] = "done" =>
                    /\ host = "A2AChat" =>
                          \A n \in 1..Len(BodyLines(s)) :
                             (~BadLine(BodyLines(s)[n]) /\ LineChunks(BodyLines(s)[n]) # <<>>) =>
                                \E i \in 1..Len(delivered[s]) :
                                   delivered[s][i].no = n /\ delivered[s][i].k = 1
                    /\ host = "useA2AAgent" =>
                          /\ {onMessageCalls[s][i] : i \in 1..Len(onMessageCalls[s])} = ResultLines(s)
                          /\ \A i, j \in 1..Len(onMessageCalls[s]) :
                                i < j => onMessageCalls[s][i] < onMessageCalls[s][j])
    /\ [][\A s \in Streams : (pc[s] # "done" /\ pc'[s] = "done") => connectionState' = "connected"]_vars

\* C29 witness: a finished stream whose body held invalid JSON, an empty
\* data line, a [DONE] marker and a chunk whose translation throws, with the
\* text of its last line handed to the renderer and no onError call
C29_Witness ==
    \E s \in Streams :
        /\ host = "A2AChat" /\ pc[s] = "done" /\ connectionState = "connected"
        /\ \E n, m \in 1..Len(BodyLines(s)) :
              /\ n < m /\ Throws(BodyLines(s)[n])
              /\ \E k \in 1..(n - 1) : DataStr(BodyLines(s)[k]) = <<"{bad">>
              /\ \E i \in 1..Len(delivered[s]) : delivered[s][i].no = m
        /\ onErrorCalls[s] = <<>>

\* ------------------------------------------------------ disconnect properties
\* C27: from disconnect() until sendMessage or reconnect is called next, the
\* hook's connection state is 'disconnected' and taskId and contextId are
\* unset.
C27_StaysDisconnected ==
    sinceDisconnect => connectionState = "disconnected" /\ taskId = Undef /\ contextId = Undef

\* ------------------------------------------------------------ form properties
\* C22: every call of handleFormSubmit from a shown form has sent exactly
\* one form_response message.
C22_SubmitSendsOnce ==
    submitted = Cardinality({s \in Streams : message[s].type = "form_response"})

====
